---------------------------- MODULE Spec2Model ----------------------------
(***************************************************************************)
(* The per-peer BGP session engine of BIRD (proto/bgp/bgp.c).               *)
(*                                                                         *)
(* Every peer (struct bgp_proto) is a record; its two connection slots     *)
(* (struct bgp_conn) are the records P.cn["out"] and P.cn["in"].  The      *)
(* functions of bgp.c are operators on these records, translated           *)
(* statement by statement; one action of the next-state relation is one    *)
(* callback of the event loop (a timer expiry, a socket hook, an event,    *)
(* a lock grant, a call of the protocol core) run to completion.           *)
(***************************************************************************)
EXTENDS Integers, FiniteSets, Sequences, TLC

(***************************************************************************)
(* Bounds of the model.                                                    *)
(***************************************************************************)
NPeers == 2        \* BGP instances of the configuration with several peers
MaxTime == 2       \* the clock `now' runs from 1 to MaxTime
MaxLeak == 1       \* bgp_counter is capped: see CoreStart
MaxErrorTime == 2  \* error times of UnitConfigs run up to this
MaxTimerValue == 8 \* nominal timer values of StartTimer run from 0 to this
MaxReconf == 1     \* configurations a peer of SpecUnit is reconfigured to

ConnIds == {"out", "in"}     \* outgoing_conn, incoming_conn

(***************************************************************************)
(* Program constants.                                                      *)
(***************************************************************************)
BSS_PREPARE == 0
BSS_CONNECT == 1
BSS_CONNECT_NOCAP == 2

PKT_OPEN == "Open"
PKT_UPDATE == "Update"
PKT_NOTIFICATION == "Notification"
PKT_KEEPALIVE == "Keepalive"

\* A timer or an event that is not allocated (a NULL pointer).
NULLT == -1

\* Error classes and class-specific codes (bgp_err_classes, bgp_misc_errors,
\* bgp_auto_errors give their order).
BE_NONE == "None"
BE_MISC == "Misc"
BE_SOCKET == "Socket"
BE_BGP_RX == "BgpRx"
BE_BGP_TX == "BgpTx"
BE_AUTO_DOWN == "AutoDown"
BE_MAN_DOWN == "ManDown"
BEM_NEIGHBOR_LOST == 1
BEM_INVALID_NEXT_HOP == 2
BEM_INVALID_MD5 == 3
BEA_ROUTE_LIMIT_EXCEEDED == 1

MIN(a, b) == IF a < b THEN a ELSE b
MAX(a, b) == IF a > b THEN a ELSE b

Other(c) == IF c = "out" THEN "in" ELSE "out"

(***************************************************************************)
(* Configurations (struct bgp_config) the peers are run with.  The times   *)
(* are those of the grammar's defaults except the three error times,       *)
(* which are configured small ("error forget time 1; error wait time       *)
(* 1, 3") so that the clock of the model reaches them.  password is << >>  *)
(* for a NULL pointer and << text >> for a string; global is the           *)
(* configuration (struct config) the record was parsed into, which stands  *)
(* for the struct proto_config part that bgp_reconfigure does not compare. *)
(***************************************************************************)
BaseCf ==
  [ global |-> 0,
    passive |-> FALSE, capabilities |-> TRUE, password |-> << >>,
    disable_after_error |-> FALSE, route_limit |-> 0,
    start_delay_time |-> 5, connect_retry_time |-> 120,
    initial_hold_time |-> 240, hold_time |-> 240,
    error_amnesia_time |-> 1, error_delay_time_min |-> 1,
    error_delay_time_max |-> 3, remote_ip |-> 0 ]

VARIABLES
  peer,            \* instance -> struct bgp_proto
  bgp_counter,     \* number of instances using the listening socket
  bgp_listen_sk,   \* TRUE iff the global listening socket is allocated
  bgp_linpool,     \* TRUE iff the global temporary pool is allocated
  now,             \* the clock
  last             \* the last call of bgp_error (or of another function a
                   \* property is about) made by a callback

vars == << peer, bgp_counter, bgp_listen_sk, bgp_linpool, now, last >>

(***************************************************************************)
(* The state after bgp_init (proto_new zeroes the structure).              *)
(***************************************************************************)
InitConn ==
  [ state |-> "Idle", sk |-> FALSE, rx_hook |-> FALSE,
    connect_retry_timer |-> NULLT, hold_timer |-> NULLT,
    keepalive_timer |-> NULLT, tx_ev |-> FALSE, packets_to_send |-> {},
    notify_code |-> 0, notify_subcode |-> 0 ]

InitPeer(cf) ==
  [ cf |-> cf, proto_state |-> "Down", disabled |-> FALSE,
    start_state |-> BSS_PREPARE, conn |-> "NULL",
    cn |-> [c \in ConnIds |-> InitConn],
    event |-> NULLT, startup_timer |-> NULLT,
    startup_delay |-> 0, last_proto_error |-> 0,
    last_error_class |-> BE_NONE, last_error_code |-> 0,
    lock |-> "none", neigh |-> "null" ]

(***************************************************************************)
(* The protocol core and the library, as bgp.c uses them.                  *)
(***************************************************************************)
\* proto_notify_state: the core records the new state; on PS_DOWN it frees
\* the instance's pool (the decision event, the startup timer, the object
\* lock) and prunes its neighbor entry.
proto_notify_state(P, ps) ==
  IF ps = "Down"
    THEN [P EXCEPT !.proto_state = ps, !.event = NULLT,
                   !.startup_timer = NULLT, !.lock = "none",
                   !.neigh = "null"]
    ELSE [P EXCEPT !.proto_state = ps]

\* ev_schedule(p->event): a coalescing flag (0 idle, 1 scheduled).
ev_schedule(P) == [P EXCEPT !.event = 1]

\* tm_stop on an allocated timer.
tm_stop(t) == 0

\* tm_start: the interval after which a timer started with delay `after'
\* fires, r being the random addition it draws from 0 .. t->randomize.
tm_start(after, randomize, r) == after + r

\* bgp_schedule_packet sets the packet's bit in packets_to_send.
bgp_schedule_packet(conn, type) ==
  [conn EXCEPT !.packets_to_send = @ \cup {type}]

(***************************************************************************)
(* bgp.c                                                                   *)
(***************************************************************************)
\* Variant of bgp_timer_randomize that takes half of the value.
timer_randomize_half(value) == value \div 2

\* t->randomize = value / 4 (value is not negative: C's division and \div
\* agree).
bgp_timer_randomize(value) == value \div 4

\* The delay bgp_start_timer hands to tm_start.
bgp_timer_after(value) == value - bgp_timer_randomize(value)

\* The timer as armed: its nominal value (0: stopped).
bgp_start_timer(t, value) ==
  IF value # 0 THEN value ELSE tm_stop(t)

bgp_close_conn(conn) ==
  [conn EXCEPT !.packets_to_send = {},
               !.connect_retry_timer = NULLT,
               !.keepalive_timer = NULLT,
               !.hold_timer = NULLT,
               !.sk = FALSE, !.rx_hook = FALSE,
               !.tx_ev = FALSE]

\* Variant of bgp_update_startup_delay that never forgets an old error.
update_startup_delay_no_amnesia(P) ==
  LET cf == P.cf
      P2 == [P EXCEPT !.last_proto_error = now]
  IN  IF cf.disable_after_error
        THEN [P2 EXCEPT !.startup_delay = 0, !.disabled = TRUE]
        ELSE IF P2.startup_delay = 0
          THEN [P2 EXCEPT !.startup_delay = cf.error_delay_time_min]
          ELSE [P2 EXCEPT !.startup_delay =
                            MIN(2 * P2.startup_delay, cf.error_delay_time_max)]

bgp_update_startup_delay(P) ==
  LET cf == P.cf
      P1 == IF P.last_proto_error # 0
               /\ (now - P.last_proto_error) >= cf.error_amnesia_time
              THEN [P EXCEPT !.startup_delay = 0]
              ELSE P
      P2 == [P1 EXCEPT !.last_proto_error = now]
  IN  IF cf.disable_after_error
        THEN [P2 EXCEPT !.startup_delay = 0, !.disabled = TRUE]
        ELSE IF P2.startup_delay = 0
          THEN [P2 EXCEPT !.startup_delay = cf.error_delay_time_min]
          ELSE [P2 EXCEPT !.startup_delay =
                            MIN(2 * P2.startup_delay, cf.error_delay_time_max)]

\* Variant of bgp_store_error that records errors of the secondary
\* connection as well.
bgp_store_error_any_conn(P, c, class, code) ==
  IF P.proto_state = "Stop"
    THEN P
    ELSE [P EXCEPT !.last_error_class = class, !.last_error_code = code]

\* Variant of bgp_store_error that records errors in PS_STOP as well.
bgp_store_error_in_stop(P, c, class, code) ==
  IF P.proto_state = "Up" /\ c # "NULL" /\ c # P.conn
    THEN P
    ELSE [P EXCEPT !.last_error_class = class, !.last_error_code = code]

bgp_store_error(P, c, class, code) ==
  IF P.proto_state = "Up" /\ c # "NULL" /\ c # P.conn
    THEN P
    ELSE IF P.proto_state = "Stop"
      THEN P
      ELSE [P EXCEPT !.last_error_class = class, !.last_error_code = code]

bgp_conn_set_state(conn, new_state) == [conn EXCEPT !.state = new_state]

RECURSIVE bgp_error(_, _, _, _)
RECURSIVE bgp_stop(_, _)
RECURSIVE bgp_graceful_close_conn(_, _, _)
RECURSIVE bgp_conn_leave_established_state(_)
RECURSIVE bgp_conn_enter_close_state(_, _)
RECURSIVE bgp_conn_enter_idle_state(_, _)

bgp_graceful_close_conn(P, c, subcode) ==
  LET st == P.cn[c].state
  IN  IF st \in {"Idle", "Close"} THEN P
      ELSE IF st \in {"Connect", "Active"}
        THEN bgp_conn_enter_idle_state(P, c)
        ELSE bgp_error(P, c, 6, subcode)

\* Variant of bgp_stop that closes the outgoing connection only.
bgp_stop_outgoing_only(P, subcode) ==
  ev_schedule(bgp_graceful_close_conn(proto_notify_state(P, "Stop"),
                                      "out", subcode))

bgp_stop(P, subcode) ==
  LET P1 == proto_notify_state(P, "Stop")
      P2 == bgp_graceful_close_conn(P1, "out", subcode)
      P3 == bgp_graceful_close_conn(P2, "in", subcode)
  IN  ev_schedule(P3)

\* Variant of bgp_conn_leave_established_state that does not stop the
\* instance.
leave_established_keeps_up(P) == [P EXCEPT !.conn = "NULL"]

bgp_conn_leave_established_state(P) ==
  LET P1 == [P EXCEPT !.conn = "NULL"]
  IN  IF P1.proto_state = "Up" THEN bgp_stop(P1, 0) ELSE P1

\* Variant of bgp_conn_enter_close_state that frees the socket.
enter_close_frees_socket(P, c) ==
  LET os == P.cn[c].state
      P1 == [P EXCEPT !.cn[c] =
               [bgp_conn_set_state(@, "Close") EXCEPT
                  !.hold_timer = tm_stop(@),
                  !.keepalive_timer = tm_stop(@),
                  !.sk = FALSE,
                  !.rx_hook = FALSE]]
  IN  IF os = "Established"
        THEN bgp_conn_leave_established_state(P1)
        ELSE P1

\* Variant of bgp_conn_enter_close_state that leaves the keepalive timer
\* running.
enter_close_keeps_keepalive(P, c) ==
  LET os == P.cn[c].state
      P1 == [P EXCEPT !.cn[c] =
               [bgp_conn_set_state(@, "Close") EXCEPT
                  !.hold_timer = tm_stop(@),
                  !.rx_hook = FALSE]]
  IN  IF os = "Established"
        THEN bgp_conn_leave_established_state(P1)
        ELSE P1

bgp_conn_enter_close_state(P, c) ==
  LET os == P.cn[c].state
      P1 == [P EXCEPT !.cn[c] =
               [bgp_conn_set_state(@, "Close") EXCEPT
                  !.hold_timer = tm_stop(@),
                  !.keepalive_timer = tm_stop(@),
                  !.rx_hook = FALSE]]
  IN  IF os = "Established"
        THEN bgp_conn_leave_established_state(P1)
        ELSE P1

\* Variant of bgp_conn_enter_idle_state that does not schedule the event.
enter_idle_no_event(P, c) ==
  LET os == P.cn[c].state
      P1 == [P EXCEPT !.cn[c] = bgp_conn_set_state(bgp_close_conn(@), "Idle")]
  IN  IF os = "Established"
        THEN bgp_conn_leave_established_state(P1)
        ELSE P1

bgp_conn_enter_idle_state(P, c) ==
  LET os == P.cn[c].state
      P1 == [P EXCEPT !.cn[c] = bgp_conn_set_state(bgp_close_conn(@), "Idle")]
      P2 == ev_schedule(P1)
  IN  IF os = "Established"
        THEN bgp_conn_leave_established_state(P2)
        ELSE P2

\* Variant of bgp_error without the test for the Close state.
bgp_error_in_close(P, c, code, subcode) ==
  LET P1 == bgp_store_error(P, c, BE_BGP_TX, code * 65536 + subcode)
      P2 == bgp_conn_enter_close_state(P1, c)
      P3 == [P2 EXCEPT !.cn[c] =
               bgp_schedule_packet(
                 [@ EXCEPT !.notify_code = code, !.notify_subcode = subcode],
                 PKT_NOTIFICATION)]
  IN  IF code # 6
        THEN bgp_stop(bgp_update_startup_delay(P3), 0)
        ELSE P3

\* Variant of bgp_error that stores the subcode as the code.
bgp_error_subcode_as_code(P, c, code, subcode) ==
  IF P.cn[c].state = "Close" THEN P
  ELSE
    LET P1 == bgp_store_error(P, c, BE_BGP_TX, code * 65536 + subcode)
        P2 == bgp_conn_enter_close_state(P1, c)
        P3 == [P2 EXCEPT !.cn[c] =
                 bgp_schedule_packet(
                   [@ EXCEPT !.notify_code = subcode, !.notify_subcode = subcode],
                   PKT_NOTIFICATION)]
    IN  IF code # 6
          THEN bgp_stop(bgp_update_startup_delay(P3), 0)
          ELSE P3

\* Variant of bgp_error that applies the back-off to Cease as well.
bgp_error_backoff_on_cease(P, c, code, subcode) ==
  IF P.cn[c].state = "Close" THEN P
  ELSE
    LET P1 == bgp_store_error(P, c, BE_BGP_TX, code * 65536 + subcode)
        P2 == bgp_conn_enter_close_state(P1, c)
        P3 == [P2 EXCEPT !.cn[c] =
                 bgp_schedule_packet(
                   [@ EXCEPT !.notify_code = code, !.notify_subcode = subcode],
                   PKT_NOTIFICATION)]
    IN  IF code # 6
          THEN bgp_stop(bgp_update_startup_delay(P3), 0)
          ELSE bgp_update_startup_delay(P3)

bgp_error(P, c, code, subcode) ==
  IF P.cn[c].state = "Close" THEN P
  ELSE
    LET P1 == bgp_store_error(P, c, BE_BGP_TX, code * 65536 + subcode)
        P2 == bgp_conn_enter_close_state(P1, c)
        P3 == [P2 EXCEPT !.cn[c] =
                 bgp_schedule_packet(
                   [@ EXCEPT !.notify_code = code, !.notify_subcode = subcode],
                   PKT_NOTIFICATION)]
    IN  IF code # 6
          THEN bgp_stop(bgp_update_startup_delay(P3), 0)
          ELSE P3

\* Variant of bgp_conn_enter_openconfirm_state that enters Established.
enter_openconfirm_as_established(conn) ==
  bgp_conn_set_state(conn, "Established")

bgp_conn_enter_openconfirm_state(conn) ==
  bgp_conn_set_state(conn, "OpenConfirm")

\* Variant of bgp_conn_enter_established_state that does not record the
\* connection in p->conn.
enter_established_no_conn(P, c) ==
  LET P1 == [P EXCEPT !.last_error_class = BE_NONE,
                      !.last_error_code = 0,
                      !.cn[c] = bgp_conn_set_state(@, "Established")]
  IN  proto_notify_state(P1, "Up")

bgp_conn_enter_established_state(P, c) ==
  LET P1 == [P EXCEPT !.conn = c,
                      !.last_error_class = BE_NONE,
                      !.last_error_code = 0,
                      !.cn[c] = bgp_conn_set_state(@, "Established")]
  IN  proto_notify_state(P1, "Up")

bgp_send_open(conn, cf) ==
  LET c1 == [conn EXCEPT !.rx_hook = TRUE,
                         !.connect_retry_timer = tm_stop(@)]
      c2 == bgp_schedule_packet(c1, PKT_OPEN)
      c3 == bgp_conn_set_state(c2, "OpenSent")
  IN  [c3 EXCEPT !.hold_timer = bgp_start_timer(@, cf.initial_hold_time)]

bgp_setup_conn(conn) ==
  [conn EXCEPT !.sk = FALSE, !.rx_hook = FALSE, !.packets_to_send = {},
               !.connect_retry_timer = 0, !.hold_timer = 0,
               !.keepalive_timer = 0, !.tx_ev = TRUE]

bgp_setup_sk(conn) == [conn EXCEPT !.sk = TRUE, !.rx_hook = FALSE]

bgp_active(P) ==
  LET delay == MAX(1, P.cf.start_delay_time)
      c1 == bgp_setup_conn(P.cn["out"])
      c2 == bgp_conn_set_state(c1, "Active")
  IN  [P EXCEPT !.cn["out"] =
         [c2 EXCEPT !.connect_retry_timer = bgp_start_timer(@, delay)]]

bgp_sock_err(P, c, err) ==
  bgp_conn_enter_idle_state(bgp_store_error(P, c, BE_SOCKET, err), c)

\* sk_open_fails: the outcome of sk_open on the new socket.
bgp_connect(P, sk_open_fails) ==
  LET c1 == bgp_setup_sk(bgp_setup_conn(P.cn["out"]))
      c2 == bgp_conn_set_state(c1, "Connect")
      P1 == [P EXCEPT !.cn["out"] = c2]
  IN  IF sk_open_fails
        THEN bgp_sock_err(P1, "out", 0)
        ELSE [P1 EXCEPT !.cn["out"].connect_retry_timer =
                          bgp_start_timer(@, P.cf.connect_retry_time)]

\* Variant of bgp_connect_timeout that retries whatever the protocol state.
connect_timeout_always_retry(P, c, sk_open_fails) ==
  bgp_connect([P EXCEPT !.cn[c] = bgp_close_conn(@)], sk_open_fails)

bgp_connect_timeout(P, c, sk_open_fails) ==
  IF P.proto_state = "Start"
    THEN bgp_connect([P EXCEPT !.cn[c] = bgp_close_conn(@)], sk_open_fails)
    ELSE bgp_conn_enter_idle_state(P, c)

\* Variant of bgp_hold_timeout that does not look at the input queue.
hold_timeout_ignores_rx(P, c, rx_ready) == bgp_error(P, c, 4, 0)

\* rx_ready: sk_rx_ready(conn->sk) > 0.
bgp_hold_timeout(P, c, rx_ready) ==
  IF rx_ready
    THEN [P EXCEPT !.cn[c].hold_timer = bgp_start_timer(@, 10)]
    ELSE bgp_error(P, c, 4, 0)

bgp_keepalive_timeout(P, c) ==
  [P EXCEPT !.cn[c] = bgp_schedule_packet(@, PKT_KEEPALIVE)]

\* Variant of bgp_startup that opens the outgoing connection of a passive
\* peer as well.
bgp_startup_ignores_passive(P) ==
  bgp_active([P EXCEPT !.start_state =
                IF P.cf.capabilities THEN BSS_CONNECT ELSE BSS_CONNECT_NOCAP])

bgp_startup(P) ==
  LET P1 == [P EXCEPT !.start_state =
               IF P.cf.capabilities THEN BSS_CONNECT ELSE BSS_CONNECT_NOCAP]
  IN  IF ~P.cf.passive THEN bgp_active(P1) ELSE P1

bgp_startup_timeout(P) == bgp_startup(P)

\* Variant of bgp_initiate that starts at once whatever the startup delay.
bgp_initiate_no_delay(P) == bgp_startup(P)

bgp_initiate(P) ==
  IF P.startup_delay # 0
    THEN [P EXCEPT !.startup_timer = bgp_start_timer(@, P.startup_delay)]
    ELSE bgp_startup(P)

\* Variant of bgp_apply_limits that does not update the startup delay.
apply_limits_no_backoff(P, imp_routes) ==
  IF P.cf.route_limit # 0 /\ imp_routes > P.cf.route_limit
    THEN bgp_stop(
           bgp_store_error(P, "NULL", BE_AUTO_DOWN, BEA_ROUTE_LIMIT_EXCEEDED),
           1)
    ELSE P

\* The value bgp_apply_limits returns.
bgp_apply_limits_rv(P, imp_routes) ==
  IF P.cf.route_limit # 0 /\ imp_routes > P.cf.route_limit THEN -1 ELSE 0

bgp_apply_limits(P, imp_routes) ==
  IF P.cf.route_limit # 0 /\ imp_routes > P.cf.route_limit
    THEN bgp_stop(
           bgp_update_startup_delay(
             bgp_store_error(P, "NULL", BE_AUTO_DOWN, BEA_ROUTE_LIMIT_EXCEEDED)),
           1)
    ELSE P

\* Variant of bgp_shutdown that always ceases with "administrative shutdown".
bgp_shutdown_admin_only(P, cause) ==
  LET P1 == bgp_store_error(P, "NULL", BE_MAN_DOWN, 0)
  IN  bgp_stop([P1 EXCEPT !.startup_delay = 0], 2)

\* cause: P->reconfiguring and P->cf_new as the core sets them.
bgp_shutdown(P, cause) ==
  LET P1 == bgp_store_error(P, "NULL", BE_MAN_DOWN, 0)
      subcode == IF cause = "reconfigured" THEN 6
                 ELSE IF cause = "deconfigured" THEN 3
                 ELSE 2
  IN  bgp_stop([P1 EXCEPT !.startup_delay = 0], subcode)

\* bgp_start; the core then enters PS_START, the state bgp_start returns.
bgp_start(P) ==
  LET P1 == [P EXCEPT !.start_state = BSS_PREPARE,
                      !.cn["out"].state = "Idle",
                      !.cn["in"].state = "Idle",
                      !.neigh = "null",
                      !.event = 0,
                      !.startup_timer = 0,
                      !.lock = "pending"]
  IN  proto_notify_state(P1, "Start")

(***************************************************************************)
(* The functions that touch the process-wide listener.  W is the record    *)
(* of the peers and the three globals.                                     *)
(***************************************************************************)
\* md5_unset: the callback that runs has called sk_set_md5_auth(.., NULL),
\* the removal of an MD5 key from the listening socket.
World ==
  [ peer |-> peer, bgp_counter |-> bgp_counter,
    bgp_listen_sk |-> bgp_listen_sk, bgp_linpool |-> bgp_linpool,
    md5_unset |-> FALSE ]

\* Variant of bgp_close that removes the MD5 key whatever apply_md5 is.
bgp_close_always_md5(W, i, apply_md5) ==
  LET n == W.bgp_counter - 1
      W1 == IF W.peer[i].cf.password # << >>
              THEN [W EXCEPT !.md5_unset = TRUE]
              ELSE W
  IN  IF n = 0
        THEN [W1 EXCEPT !.bgp_counter = n, !.bgp_listen_sk = FALSE,
                        !.bgp_linpool = FALSE]
        ELSE [W1 EXCEPT !.bgp_counter = n]

bgp_close(W, i, apply_md5) ==
  LET n == W.bgp_counter - 1
      W1 == IF W.peer[i].cf.password # << >> /\ apply_md5
              THEN [W EXCEPT !.md5_unset = TRUE]
              ELSE W
  IN  IF n = 0
        THEN [W1 EXCEPT !.bgp_counter = n, !.bgp_listen_sk = FALSE,
                        !.bgp_linpool = FALSE]
        ELSE [W1 EXCEPT !.bgp_counter = n]

\* listen_fails: sk_open of the listening socket fails (bgp_setup_listen_sk
\* returns NULL); md5_fails: sk_set_md5_auth returns < 0.
\* The result is W with rv, the value bgp_open returns.
bgp_open(W, i, listen_fails, md5_fails) ==
  LET W1 == [W EXCEPT !.bgp_counter = @ + 1,
                      !.bgp_listen_sk = IF @ THEN @ ELSE ~listen_fails,
                      !.bgp_linpool = TRUE]
  IN  IF W.peer[i].cf.password # << >> /\ md5_fails
        THEN LET W2 == bgp_close(W1, i, FALSE)
                 P1 == [W2.peer[i] EXCEPT !.disabled = TRUE]
                 P2 == bgp_store_error(P1, "NULL", BE_MISC, BEM_INVALID_MD5)
             IN  [w |-> [W2 EXCEPT !.peer[i] = proto_notify_state(P2, "Down")],
                  rv |-> -1]
        ELSE [w |-> W1, rv |-> 0]

\* Variant of bgp_down that releases the listener whatever start_state is.
bgp_down_always_close(W, i) ==
  [bgp_close(W, i, TRUE) EXCEPT !.peer[i] = proto_notify_state(@, "Down")]

bgp_down(W, i) ==
  LET W1 == IF W.peer[i].start_state > BSS_PREPARE
              THEN bgp_close(W, i, TRUE)
              ELSE W
  IN  [W1 EXCEPT !.peer[i] = proto_notify_state(@, "Down")]

\* Variant of bgp_decision that starts no outgoing connection.
decision_only_down(W, i) ==
  LET P == W.peer[i]
  IN  IF P.proto_state = "Stop" /\ P.cn["out"].state = "Idle"
         /\ P.cn["in"].state = "Idle"
        THEN bgp_down(W, i)
        ELSE W

\* Variant of bgp_decision that does not look at the state of the outgoing
\* connection before it calls bgp_active.
decision_active_any_state(W, i) ==
  LET P == W.peer[i]
      P1 == IF P.proto_state = "Start" /\ ~P.cf.passive
              THEN bgp_active(P)
              ELSE P
      W1 == [W EXCEPT !.peer[i] = P1]
  IN  IF P1.proto_state = "Stop" /\ P1.cn["out"].state = "Idle"
         /\ P1.cn["in"].state = "Idle"
        THEN bgp_down(W1, i)
        ELSE W1

\* Variant of bgp_decision that goes down without looking at the incoming
\* connection.
decision_ignores_incoming(W, i) ==
  LET P == W.peer[i]
      P1 == IF P.proto_state = "Start" /\ P.cn["out"].state = "Idle"
               /\ ~P.cf.passive
              THEN bgp_active(P)
              ELSE P
      W1 == [W EXCEPT !.peer[i] = P1]
  IN  IF P1.proto_state = "Stop" /\ P1.cn["out"].state = "Idle"
        THEN bgp_down(W1, i)
        ELSE W1

bgp_decision(W, i) ==
  LET P == W.peer[i]
      P1 == IF P.proto_state = "Start" /\ P.cn["out"].state = "Idle"
               /\ ~P.cf.passive
              THEN bgp_active(P)
              ELSE P
      W1 == [W EXCEPT !.peer[i] = P1]
  IN  IF P1.proto_state = "Stop" /\ P1.cn["out"].state = "Idle"
         /\ P1.cn["in"].state = "Idle"
        THEN bgp_down(W1, i)
        ELSE W1

bgp_start_neighbor(W, i, listen_fails, md5_fails) ==
  LET r == bgp_open(W, i, listen_fails, md5_fails)
  IN  IF r.rv < 0
        THEN r.w
        ELSE [r.w EXCEPT !.peer[i] = bgp_initiate(@)]

\* Variant of bgp_neigh_notify that does not look at start_state.
neigh_notify_any_start_state(W, i, listen_fails, md5_fails) ==
  LET P == W.peer[i]
  IN  IF P.neigh = "if"
        THEN IF P.proto_state = "Start"
               THEN bgp_start_neighbor(W, i, listen_fails, md5_fails)
               ELSE W
        ELSE IF P.proto_state \in {"Start", "Up"}
               THEN [W EXCEPT !.peer[i] =
                       bgp_stop(bgp_store_error(@, "NULL", BE_MISC,
                                                BEM_NEIGHBOR_LOST), 0)]
               ELSE W

\* The neighbor entry n is the peer's (n->proto); n->iface is P.neigh = "if".
bgp_neigh_notify(W, i, listen_fails, md5_fails) ==
  LET P == W.peer[i]
  IN  IF P.neigh = "if"
        THEN IF P.proto_state = "Start" /\ P.start_state = BSS_PREPARE
               THEN bgp_start_neighbor(W, i, listen_fails, md5_fails)
               ELSE W
        ELSE IF P.proto_state \in {"Start", "Up"}
               THEN [W EXCEPT !.peer[i] =
                       bgp_stop(bgp_store_error(@, "NULL", BE_MISC,
                                                BEM_NEIGHBOR_LOST), 0)]
               ELSE W

(***************************************************************************)
(* The neighbor cache (nest/iface.c).  An interface, as if_connected sees  *)
(* it for the address a looked up: admin_down (IF_ADMIN_DOWN or            *)
(* IF_IGNORE), opposite (IF_UNNUMBERED and a is the opposite end), in_net  *)
(* (a is in the interface's prefix), special (a is the network, the        *)
(* broadcast or the interface's own address), up (IF_UP).                  *)
(***************************************************************************)
Ifaces ==
  [admin_down : BOOLEAN, opposite : BOOLEAN, in_net : BOOLEAN,
   special : BOOLEAN, up : BOOLEAN]

\* -1 = error, 1 = match, 0 = no match.
if_connected(i) ==
  IF i.admin_down THEN 0
  ELSE IF i.opposite THEN 1
  ELSE IF ~i.in_net THEN 0
  ELSE IF i.special THEN -1
  ELSE IF ~i.up THEN 0
  ELSE 1

\* Variant of neigh_find that ignores NEF_STICKY.
neigh_find_not_sticky(host, iface_list, sticky) ==
  LET v == {if_connected(iface_list[k]) : k \in DOMAIN iface_list}
  IN  IF ~host THEN "null"
      ELSE IF -1 \in v THEN "null"
      ELSE IF 1 \in v THEN "if"
      ELSE "null"

\* neigh_find for an address the list has no entry of (the entry of an
\* instance is pruned when the instance goes down).  host: ipa_classify
\* finds a host address of site scope or wider.  The result is "null" (no
\* entry), "noif" (an entry without interface) or "if".
neigh_find(host, iface_list, sticky) ==
  LET v == {if_connected(iface_list[k]) : k \in DOMAIN iface_list}
  IN  IF ~host THEN "null"
      ELSE IF -1 \in v THEN "null"
      ELSE IF 1 \in v THEN "if"
      ELSE IF ~sticky THEN "null"
      ELSE "noif"

\* Variant of bgp_start_locked without the test of the protocol state.
start_locked_any_state(W, i, found, listen_fails, md5_fails) ==
  LET P1 == [W.peer[i] EXCEPT !.neigh = found]
  IN  IF found = "null"
        THEN [W EXCEPT !.peer[i] =
                proto_notify_state(
                  bgp_store_error([P1 EXCEPT !.disabled = TRUE], "NULL",
                                  BE_MISC, BEM_INVALID_NEXT_HOP),
                  "Down")]
        ELSE IF found = "if"
          THEN bgp_start_neighbor([W EXCEPT !.peer[i] = P1], i,
                                  listen_fails, md5_fails)
          ELSE [W EXCEPT !.peer[i] = P1]

\* found: what neigh_find(.., NEF_STICKY) returns: "null" (no neighbor), an
\* entry without an interface ("noif") or with one ("if").
bgp_start_locked(W, i, found, listen_fails, md5_fails) ==
  LET P == W.peer[i]
  IN  IF P.proto_state # "Start" THEN W
      ELSE
        LET P1 == [P EXCEPT !.neigh = found]
        IN  IF found = "null"
              THEN [W EXCEPT !.peer[i] =
                      proto_notify_state(
                        bgp_store_error([P1 EXCEPT !.disabled = TRUE], "NULL",
                                        BE_MISC, BEM_INVALID_NEXT_HOP),
                        "Down")]
              ELSE IF found = "if"
                THEN bgp_start_neighbor([W EXCEPT !.peer[i] = P1], i,
                                        listen_fails, md5_fails)
                ELSE [W EXCEPT !.peer[i] = P1]

\* The peer the listening socket's rx hook hands a connection from `addr'
\* to: the first configured instance with that remote_ip (0: none).
bgp_incoming_peer(W, addr) ==
  LET m == {i \in DOMAIN W.peer : W.peer[i].cf.remote_ip = addr}
  IN  IF m = {} THEN 0 ELSE CHOOSE i \in m : \A j \in m : i <= j

\* Variant of bgp_incoming_acc that does not look at start_state.
incoming_acc_any_start_state(P) ==
  /\ P.proto_state \in {"Start", "Up"}
  /\ ~P.cn["in"].sk

bgp_incoming_acc(P) ==
  /\ P.proto_state \in {"Start", "Up"}
  /\ P.start_state >= BSS_CONNECT
  /\ ~P.cn["in"].sk

bgp_incoming_connection(W, addr) ==
  LET i == bgp_incoming_peer(W, addr)
  IN  IF i = 0 THEN W
      ELSE IF ~bgp_incoming_acc(W.peer[i]) THEN W
      ELSE [W EXCEPT !.peer[i].cn["in"] =
              bgp_send_open(bgp_setup_sk(bgp_setup_conn(@)), W.peer[i].cf)]

(***************************************************************************)
(* The packet codec (packets.c), as far as it drives the state machine.    *)
(***************************************************************************)
\* An Open arrives on c.  other_loses: the collision rule (the comparison
\* of the router ids) gives up the other connection.
bgp_rx_open(P, c, other_loses) ==
  LET o == Other(c)
      accept(Q) ==
        [Q EXCEPT !.cn[c] =
           bgp_conn_enter_openconfirm_state(
             [bgp_schedule_packet(@, PKT_KEEPALIVE) EXCEPT
                !.hold_timer = bgp_start_timer(@, Q.cf.hold_time)])]
  IN  IF P.cn[c].state # "OpenSent" THEN bgp_error(P, c, 5, 0)
      ELSE IF P.cn[o].state = "OpenConfirm" /\ other_loses
        THEN accept(bgp_error(P, o, 6, 7))
      ELSE IF P.cn[o].state \in {"OpenConfirm", "Established"}
        THEN bgp_error(P, c, 6, 7)
      ELSE accept(P)

bgp_rx_keepalive(P, c) ==
  LET restart(Q) ==
        [Q EXCEPT !.cn[c].hold_timer = bgp_start_timer(@, Q.cf.hold_time)]
  IN  IF P.cn[c].state = "OpenConfirm"
        THEN restart(bgp_conn_enter_established_state(P, c))
      ELSE IF P.cn[c].state = "Established" THEN restart(P)
      ELSE bgp_error(P, c, 5, 0)

bgp_rx_notification(P, c, code, subcode) ==
  LET P1 == bgp_store_error(P, c, BE_BGP_RX, code * 65536 + subcode)
      P2 == bgp_conn_enter_idle_state(P1, c)
  IN  IF code # 6
        THEN bgp_stop(bgp_update_startup_delay(P2), 0)
        ELSE P2

\* An Update arrives on c: the hold timer is restarted, the routes are
\* imported (imp_routes is the count the importer then reports), and a
\* malformed attribute list (bad) is answered by bgp_error(3, 1).
bgp_rx_update(P, c, imp_routes, bad) ==
  IF P.cn[c].state # "Established" THEN bgp_error(P, c, 5, 0)
  ELSE
    LET P1 == [P EXCEPT !.cn[c].hold_timer =
                          bgp_start_timer(@, P.cf.hold_time)]
        P2 == bgp_apply_limits(P1, imp_routes)
    IN  IF bad THEN bgp_error(P2, c, 3, 1) ELSE P2

\* The socket can take a packet: the pending packet of the highest
\* priority is sent; a sent Notification ends the connection.
bgp_fire_tx(P, c) ==
  LET s == P.cn[c].packets_to_send
  IN  IF PKT_NOTIFICATION \in s THEN bgp_conn_enter_idle_state(P, c)
      ELSE IF PKT_OPEN \in s
        THEN [P EXCEPT !.cn[c].packets_to_send = @ \ {PKT_OPEN}]
      ELSE IF PKT_KEEPALIVE \in s
        THEN [P EXCEPT !.cn[c].packets_to_send = @ \ {PKT_KEEPALIVE},
                       !.cn[c].keepalive_timer =
                          bgp_start_timer(@, P.cf.hold_time \div 3)]
      ELSE P

(***************************************************************************)
(* The state machine.                                                      *)
(***************************************************************************)
Configs ==
  { [BaseCf EXCEPT !.password = << "secret" >>, !.route_limit = 1],
    [BaseCf EXCEPT !.passive = TRUE, !.capabilities = FALSE],
    [BaseCf EXCEPT !.disable_after_error = TRUE] }

Addrs == 1 .. NPeers + 1
Errnos == {104}
RxCodes == {2, 6}
RxSubcodes == {0}
Causes == {"shutdown", "deconfigured", "reconfigured"}
IfaceLists == {<< >>} \cup {<< i >> : i \in Ifaces}

Peers == DOMAIN peer

NoCall == [op |-> "none"]
ErrCall(i, c, code, sub, os) ==
  [op |-> "bgp_error", p |-> i, c |-> c, code |-> code, sub |-> sub, os |-> os]

\* notify_code and notify_subcode are read only when the Notification that
\* bgp_error scheduled is built; on an Idle connection they are dead until
\* bgp_error writes them again.  The model clears them there, so that states
\* that differ in these dead values only are one state.
Canon(P) ==
  [P EXCEPT !.cn = [c \in ConnIds |->
     IF P.cn[c].state = "Idle"
       THEN [P.cn[c] EXCEPT !.notify_code = 0, !.notify_subcode = 0]
       ELSE P.cn[c]]]

Set(W) ==
  /\ peer' = [i \in DOMAIN W.peer |-> Canon(W.peer[i])]
  /\ bgp_counter' = W.bgp_counter
  /\ bgp_listen_sk' = W.bgp_listen_sk
  /\ bgp_linpool' = W.bgp_linpool

SetPeer(i, P) ==
  /\ peer' = [peer EXCEPT ![i] = Canon(P)]
  /\ UNCHANGED << bgp_counter, bgp_listen_sk, bgp_linpool >>

\* The instances of the configuration (config->protos): peer i with
\* remote_ip i.
InitPeers(ids) ==
  \E cfs \in [ids -> Configs] :
    peer = [i \in ids |-> InitPeer([cfs[i] EXCEPT !.remote_ip = i])]

Init ==
  /\ InitPeers({1})
  /\ bgp_counter = 0
  /\ bgp_listen_sk = FALSE
  /\ bgp_linpool = FALSE
  /\ now = 1
  /\ last = NoCall

\* The core starts an instance that is down (an instance disabled by an
\* error is started when the operator enables it again).  bgp_counter can
\* grow without bound; the model starts an instance only while the counter
\* is below the number of the other instances plus MaxLeak.
CoreStart(i) ==
  /\ peer[i].proto_state = "Down"
  /\ bgp_counter < Cardinality(Peers) - 1 + MaxLeak
  /\ SetPeer(i, bgp_start([peer[i] EXCEPT !.disabled = FALSE]))
  /\ last' = NoCall
  /\ UNCHANGED now

\* The object lock on (remote_ip, TCP, BGP port) is granted: no other
\* instance holds it.
LockGrant(i) ==
  /\ peer[i].lock = "pending"
  /\ \A j \in Peers \ {i} :
       peer[j].cf.remote_ip = peer[i].cf.remote_ip => peer[j].lock # "granted"
  /\ \E found \in {neigh_find(host, iface_list, TRUE) :
                     host \in BOOLEAN, iface_list \in IfaceLists},
        listen_fails \in BOOLEAN, md5_fails \in BOOLEAN :
       Set(bgp_start_locked([World EXCEPT !.peer[i].lock = "granted"], i,
                            found, listen_fails, md5_fails))
  /\ last' = NoCall
  /\ UNCHANGED now

\* neigh_if_up: an interface comes up that connects a sticky neighbor.
NeighIfUp(i) ==
  /\ peer[i].neigh = "noif"
  /\ \E listen_fails \in BOOLEAN, md5_fails \in BOOLEAN :
       Set(bgp_neigh_notify([World EXCEPT !.peer[i].neigh = "if"], i,
                            listen_fails, md5_fails))
  /\ last' = NoCall
  /\ UNCHANGED now

\* neigh_if_down: the neighbor's interface goes down.
NeighIfDown(i) ==
  /\ peer[i].neigh = "if"
  /\ Set(bgp_neigh_notify([World EXCEPT !.peer[i].neigh = "noif"], i,
                          FALSE, FALSE))
  /\ last' = NoCall
  /\ UNCHANGED now

StartupTimeout(i) ==
  /\ peer[i].startup_timer > 0
  /\ SetPeer(i, bgp_startup_timeout([peer[i] EXCEPT !.startup_timer = 0]))
  /\ last' = NoCall
  /\ UNCHANGED now

Decision(i) ==
  /\ peer[i].event = 1
  /\ Set(bgp_decision([World EXCEPT !.peer[i].event = 0], i))
  /\ last' = NoCall
  /\ UNCHANGED now

ConnectTimeout(i, c) ==
  /\ peer[i].cn[c].connect_retry_timer > 0
  /\ \E sk_open_fails \in BOOLEAN :
       SetPeer(i, bgp_connect_timeout(
                    [peer[i] EXCEPT !.cn[c].connect_retry_timer = 0], c,
                    sk_open_fails))
  /\ last' = NoCall
  /\ UNCHANGED now

\* bgp_connected, the tx hook of the connecting socket.
Connected(i) ==
  /\ peer[i].cn["out"].state = "Connect"
  /\ peer[i].cn["out"].sk
  /\ SetPeer(i, [peer[i] EXCEPT !.cn["out"] = bgp_send_open(@, peer[i].cf)])
  /\ last' = NoCall
  /\ UNCHANGED now

SockErr(i, c) ==
  /\ peer[i].cn[c].sk
  /\ \E err \in Errnos : SetPeer(i, bgp_sock_err(peer[i], c, err))
  /\ last' = [op |-> "bgp_sock_err", p |-> i, c |-> c,
              os |-> peer[i].cn[c].state]
  /\ UNCHANGED now

IncomingConnection(addr) ==
  /\ bgp_listen_sk
  /\ Set(bgp_incoming_connection(World, addr))
  /\ last' = LET i == bgp_incoming_peer(World, addr)
             IN  IF i # 0 /\ bgp_incoming_acc(peer[i])
                   THEN [op |-> "bgp_incoming_connection", p |-> i,
                         out |-> peer[i].cn["out"].state]
                   ELSE NoCall
  /\ UNCHANGED now

HoldTimeout(i, c) ==
  /\ peer[i].cn[c].hold_timer > 0
  /\ \E rx_ready \in BOOLEAN :
       /\ SetPeer(i, bgp_hold_timeout(
                       [peer[i] EXCEPT !.cn[c].hold_timer = 0], c, rx_ready))
       /\ last' = IF rx_ready THEN NoCall
                  ELSE ErrCall(i, c, 4, 0, peer[i].cn[c].state)
  /\ UNCHANGED now

KeepaliveTimeout(i, c) ==
  /\ peer[i].cn[c].keepalive_timer > 0
  /\ SetPeer(i, bgp_keepalive_timeout(
                  [peer[i] EXCEPT !.cn[c].keepalive_timer = 0], c))
  /\ last' = NoCall
  /\ UNCHANGED now

RxOpen(i, c) ==
  /\ peer[i].cn[c].rx_hook
  /\ \E other_loses \in BOOLEAN :
       /\ SetPeer(i, bgp_rx_open(peer[i], c, other_loses))
       /\ last' =
            IF peer[i].cn[c].state # "OpenSent"
              THEN ErrCall(i, c, 5, 0, peer[i].cn[c].state)
            ELSE IF peer[i].cn[Other(c)].state = "OpenConfirm" /\ other_loses
              THEN ErrCall(i, Other(c), 6, 7, "OpenConfirm")
            ELSE IF peer[i].cn[Other(c)].state \in {"OpenConfirm", "Established"}
              THEN ErrCall(i, c, 6, 7, "OpenSent")
            ELSE NoCall
  /\ UNCHANGED now

RxKeepalive(i, c) ==
  /\ peer[i].cn[c].rx_hook
  /\ SetPeer(i, bgp_rx_keepalive(peer[i], c))
  /\ last' = IF peer[i].cn[c].state \in {"OpenConfirm", "Established"}
               THEN NoCall
               ELSE ErrCall(i, c, 5, 0, peer[i].cn[c].state)
  /\ UNCHANGED now

RxNotification(i, c) ==
  /\ peer[i].cn[c].rx_hook
  /\ \E code \in RxCodes, subcode \in RxSubcodes :
       SetPeer(i, bgp_rx_notification(peer[i], c, code, subcode))
  /\ last' = NoCall
  /\ UNCHANGED now

RxUpdate(i, c) ==
  /\ peer[i].cn[c].rx_hook
  /\ \E imp_routes \in {1, 2}, bad \in BOOLEAN :
       /\ SetPeer(i, bgp_rx_update(peer[i], c, imp_routes, bad))
       /\ last' =
            IF peer[i].cn[c].state # "Established"
              THEN ErrCall(i, c, 5, 0, peer[i].cn[c].state)
            ELSE IF bad
              THEN ErrCall(i, c, 3, 1,
                           bgp_apply_limits(peer[i], imp_routes).cn[c].state)
            ELSE NoCall
  /\ UNCHANGED now

\* bgp_tx, the tx hook of an open connection.
Tx(i, c) ==
  /\ peer[i].cn[c].sk
  /\ peer[i].cn[c].state # "Connect"
  /\ peer[i].cn[c].packets_to_send # {}
  /\ SetPeer(i, bgp_fire_tx(peer[i], c))
  /\ last' = NoCall
  /\ UNCHANGED now

\* The core asks a running instance to shut down.
Shutdown(i) ==
  /\ peer[i].proto_state \in {"Start", "Up"}
  /\ \E cause \in Causes : SetPeer(i, bgp_shutdown(peer[i], cause))
  /\ last' = NoCall
  /\ UNCHANGED now

Tick ==
  /\ now < MaxTime
  /\ now' = now + 1
  /\ last' = NoCall
  /\ UNCHANGED << peer, bgp_counter, bgp_listen_sk, bgp_linpool >>

Next ==
  \/ \E i \in Peers : CoreStart(i)
  \/ \E i \in Peers : LockGrant(i)
  \/ \E i \in Peers : NeighIfUp(i)
  \/ \E i \in Peers : NeighIfDown(i)
  \/ \E i \in Peers : StartupTimeout(i)
  \/ \E i \in Peers : Decision(i)
  \/ \E i \in Peers, c \in ConnIds : ConnectTimeout(i, c)
  \/ \E i \in Peers : Connected(i)
  \/ \E i \in Peers, c \in ConnIds : SockErr(i, c)
  \/ \E addr \in Addrs : IncomingConnection(addr)
  \/ \E i \in Peers, c \in ConnIds : HoldTimeout(i, c)
  \/ \E i \in Peers, c \in ConnIds : KeepaliveTimeout(i, c)
  \/ \E i \in Peers, c \in ConnIds : RxOpen(i, c)
  \/ \E i \in Peers, c \in ConnIds : RxKeepalive(i, c)
  \/ \E i \in Peers, c \in ConnIds : RxNotification(i, c)
  \/ \E i \in Peers, c \in ConnIds : RxUpdate(i, c)
  \/ \E i \in Peers, c \in ConnIds : Tx(i, c)
  \/ \E i \in Peers : Shutdown(i)
  \/ Tick

Spec == Init /\ [][Next]_vars

\* SpecLive: a startup timer that is armed fires unless it is freed first
\* (the event loop runs every expired timer).
SpecLive == Spec /\ WF_vars(\E i \in Peers : StartupTimeout(i))

\* SpecStop: the event loop runs a scheduled decision event, a socket that
\* has something to send becomes writable (or fails), and a retry timer that
\* is armed fires unless it is freed first.
SpecStop ==
  /\ Spec
  /\ WF_vars(\E i \in Peers : Decision(i))
  /\ WF_vars(\E i \in Peers, c \in ConnIds :
               peer[i].cn[c].state = "Close" /\ Tx(i, c))
  /\ WF_vars(\E i \in Peers : ConnectTimeout(i, "out"))

-----------------------------------------------------------------------------
(***************************************************************************)
(* SpecUnit: one started instance (bgp_start has run, the lock is not yet  *)
(* granted) on which protocol errors occur, timers are armed and the       *)
(* configuration is reloaded, over a range of error times and passwords.   *)
(***************************************************************************)
UnitConfigs ==
  { [BaseCf EXCEPT !.error_delay_time_min = a, !.error_delay_time_max = b,
                   !.error_amnesia_time = t, !.disable_after_error = d]
      : a \in 0 .. MaxErrorTime, b \in 1 .. MaxErrorTime,
        t \in 1 .. MaxErrorTime, d \in BOOLEAN }
  \cup { [BaseCf EXCEPT !.password = << "secret" >>] }

\* The configurations a reload offers in place of cf: cf itself parsed
\* again, or cf with one option changed.
NewConfigs(cf) ==
  { [n EXCEPT !.global = cf.global + 1] :
      n \in { cf,
              [cf EXCEPT !.hold_time = 90],
              [cf EXCEPT !.passive = ~@],
              [cf EXCEPT !.password = << >>],
              [cf EXCEPT !.password = << "secret" >>],
              [cf EXCEPT !.password = << "other" >>] } }

\* The part of struct bgp_config that memcmp compares: from the end of
\* struct proto_config up to the password.
bgp_config_bytes(cf) ==
  << cf.remote_ip, cf.passive, cf.capabilities, cf.disable_after_error,
     cf.route_limit, cf.start_delay_time, cf.connect_retry_time,
     cf.initial_hold_time, cf.hold_time, cf.error_amnesia_time,
     cf.error_delay_time_min, cf.error_delay_time_max >>

\* strcmp(a, b) = 0 for two strings.
strcmp_equal(a, b) == a[1] = b[1]

\* Variant of bgp_reconfigure that does not look at the passwords.
bgp_reconfigure_ignores_password(P, new) ==
  LET same == bgp_config_bytes(P.cf) = bgp_config_bytes(new)
  IN  [p |-> IF same THEN [P EXCEPT !.cf = new] ELSE P, same |-> same]

bgp_reconfigure(P, new) ==
  LET old == P.cf
      same == /\ bgp_config_bytes(old) = bgp_config_bytes(new)
              /\ \/ (old.password = << >> /\ new.password = << >>)
                 \/ /\ old.password # << >>
                    /\ new.password # << >>
                    /\ strcmp_equal(old.password, new.password)
  IN  [p |-> IF same THEN [P EXCEPT !.cf = new] ELSE P, same |-> same]

InitUnit ==
  /\ \E cf \in UnitConfigs :
       peer = [i \in {1} |-> bgp_start(InitPeer([cf EXCEPT !.remote_ip = i]))]
  /\ bgp_counter = 0
  /\ bgp_listen_sk = FALSE
  /\ bgp_linpool = FALSE
  /\ now = 1
  /\ last = NoCall

\* A protocol error: bgp_update_startup_delay as bgp_error,
\* bgp_apply_limits and the Notification receiver call it.
UpdateStartupDelay(i) ==
  /\ SetPeer(i, bgp_update_startup_delay(peer[i]))
  /\ last' = [op |-> "bgp_update_startup_delay", p |-> i]
  /\ UNCHANGED now

\* bgp_start_timer on the startup timer with nominal value v; r is the
\* random addition tm_start draws.
StartTimer(i) ==
  /\ \E v \in 0 .. MaxTimerValue, r \in 0 .. bgp_timer_randomize(MaxTimerValue) :
       /\ r <= bgp_timer_randomize(v)
       /\ SetPeer(i, [peer[i] EXCEPT !.startup_timer = bgp_start_timer(@, v)])
       /\ last' = [op |-> "bgp_start_timer", p |-> i, value |-> v,
                   expires |-> IF v # 0
                                 THEN tm_start(bgp_timer_after(v),
                                               bgp_timer_randomize(v), r)
                                 ELSE 0]
  /\ UNCHANGED now

\* The core offers the instance its record of a reloaded configuration.
Reconfigure(i) ==
  /\ peer[i].cf.global < MaxReconf
  /\ \E new \in NewConfigs(peer[i].cf) :
       LET r == bgp_reconfigure(peer[i], new)
       IN  /\ SetPeer(i, r.p)
           /\ last' = [op |-> "bgp_reconfigure", p |-> i, new |-> new,
                       same |-> r.same]
  /\ UNCHANGED now

NextUnit ==
  \/ \E i \in Peers : UpdateStartupDelay(i)
  \/ \E i \in Peers : StartTimer(i)
  \/ \E i \in Peers : Reconfigure(i)
  \/ Tick

SpecUnit == InitUnit /\ [][NextUnit]_vars

-----------------------------------------------------------------------------
(***************************************************************************)
(* SpecMulti: NPeers instances of the configuration, in the order of       *)
(* config->protos, with the same neighbor address (instances that differ   *)
(* in the local AS) but for the last, which has that address or another.   *)
(* The instances are passive, with a password, and the peers behave (no    *)
(* error, no timeout): the instances are started, get their lock and       *)
(* their neighbor, take connections and are shut down.                     *)
(***************************************************************************)
MultiAddrs == {1, 2}

MultiConfigs ==
  { [BaseCf EXCEPT !.passive = TRUE, !.password = << "secret" >>,
                   !.remote_ip = a] : a \in MultiAddrs }

InitMulti ==
  /\ \E cfs \in [1 .. NPeers -> MultiConfigs] :
       /\ \A i \in 1 .. NPeers - 1 : cfs[i].remote_ip = 1
       /\ peer = [i \in 1 .. NPeers |-> InitPeer(cfs[i])]
  /\ bgp_counter = 0
  /\ bgp_listen_sk = FALSE
  /\ bgp_linpool = FALSE
  /\ now = 1
  /\ last = NoCall

NextMulti ==
  \/ \E i \in Peers : CoreStart(i)
  \/ \E i \in Peers : LockGrant(i)
  \/ \E i \in Peers : NeighIfUp(i)
  \/ \E i \in Peers : NeighIfDown(i)
  \/ \E i \in Peers : Decision(i)
  \/ \E addr \in Addrs : IncomingConnection(addr)
  \/ \E i \in Peers, c \in ConnIds : Tx(i, c)
  \/ \E i \in Peers : Shutdown(i)

SpecMulti == InitMulti /\ [][NextMulti]_vars

-----------------------------------------------------------------------------
\* Properties of the connection pair of a peer.

\* Inputs of bgp_error the properties below quantify over (bgp_error tells
\* code 6 from the others and nothing else).
ErrCodes == {2, 4, 6}
ErrSubcodes == {0, 7}

\* C1: of the two connections of a peer at most one is Established, and a
\* connection that is Established is the one p->conn designates.
C1_OneEstablished ==
  \A i \in Peers :
    /\ ~(/\ peer[i].cn["out"].state = "Established"
         /\ peer[i].cn["in"].state = "Established")
    /\ \A c \in ConnIds :
         peer[i].cn[c].state = "Established" => peer[i].conn = c

\* One connection is Established while the other one has sent its Open.
C1_Witness ==
  \E i \in Peers, c \in ConnIds :
    /\ peer[i].cn[c].state = "Established"
    /\ peer[i].cn[Other(c)].state = "OpenSent"

\* C2: a peer that is Up has p->conn set and that connection Established;
\* a peer that is Down has both connections Idle.
C2_ProtoStateMatchesConns ==
  \A i \in Peers :
    /\ peer[i].proto_state = "Up" =>
         /\ peer[i].conn # "NULL"
         /\ peer[i].cn[peer[i].conn].state = "Established"
    /\ peer[i].proto_state = "Down" =>
         \A c \in ConnIds : peer[i].cn[c].state = "Idle"

\* The peer is Up while its other connection is in use as well.
C2_Witness ==
  \E i \in Peers :
    /\ peer[i].proto_state = "Up"
    /\ peer[i].conn # "NULL"
    /\ peer[i].cn[Other(peer[i].conn)].state # "Idle"

\* C3 (the counting half): bgp_counter is the number of peers that have
\* completed bgp_open (they are past Prepare, or wait for the startup timer
\* bgp_initiate armed after bgp_open) and have not gone Down since; and when
\* every peer is Down bgp_counter is 0 and the listening socket is released.
C3_CounterIsOpenPeers ==
  /\ bgp_counter =
       Cardinality({ i \in Peers :
                       /\ peer[i].proto_state # "Down"
                       /\ \/ peer[i].start_state > BSS_PREPARE
                          \/ peer[i].startup_timer > 0 })
  /\ (\A i \in Peers : peer[i].proto_state = "Down") =>
       (bgp_counter = 0 /\ ~bgp_listen_sk)

\* C4 (the counting half): bgp_counter is the number of running peers whose
\* start_state is past Prepare.
C4_CounterIsPastPrepare ==
  bgp_counter =
    Cardinality({ i \in Peers :
                    /\ peer[i].proto_state # "Down"
                    /\ peer[i].start_state > BSS_PREPARE })

-----------------------------------------------------------------------------
\* The contract of bgp_error.  `last' records the bgp_error a callback has
\* invoked itself and the state the connection was in at that moment; the
\* properties below apply bgp_error to every connection of every reachable
\* state that has been set up by bgp_setup_conn (it is not Idle).

\* C5 as stated: after every bgp_error a callback invokes, the connection is
\* in Close and a Notification carrying the code and the subcode of the call
\* is pending on it.
C5_EveryErrorSetsNotification ==
  last.op = "bgp_error" =>
    LET conn == peer[last.p].cn[last.c]
    IN  /\ conn.state = "Close"
        /\ PKT_NOTIFICATION \in conn.packets_to_send
        /\ conn.notify_code = last.code
        /\ conn.notify_subcode = last.sub

\* C5 amended: for every connection that is not already in Close and every
\* (code, subcode), bgp_error leaves the connection in Close with a
\* Notification pending whose notify_code and notify_subcode are the
\* arguments of the call.
C5_ErrorSetsNotification ==
  \A i \in Peers, c \in ConnIds, code \in ErrCodes, sub \in ErrSubcodes :
    peer[i].cn[c].state \notin {"Idle", "Close"} =>
      LET conn == bgp_error(peer[i], c, code, sub).cn[c]
      IN  /\ conn.state = "Close"
          /\ PKT_NOTIFICATION \in conn.packets_to_send
          /\ conn.notify_code = code
          /\ conn.notify_subcode = sub

\* The hold timer has expired on a connection and bgp_error(4, 0) has closed
\* it.
C5_Witness ==
  /\ last.op = "bgp_error"
  /\ last.code = 4
  /\ last.os # "Close"
  /\ peer[last.p].cn[last.c].state = "Close"
  /\ peer[last.p].cn[last.c].notify_code = 4

\* C6: bgp_error on a connection that is in Close changes nothing.
C6_ErrorInCloseIsNoOp ==
  \A i \in Peers, c \in ConnIds, code \in ErrCodes, sub \in ErrSubcodes :
    peer[i].cn[c].state = "Close" =>
      bgp_error(peer[i], c, code, sub) = peer[i]

\* A callback has invoked bgp_error on a connection that was in Close.
C6_Witness ==
  /\ last.op = "bgp_error"
  /\ last.os = "Close"

\* C7: bgp_error with a code other than 6 on a connection that is not in
\* Close applies bgp_update_startup_delay, moves the peer to Stop, leaves the
\* connection in Close and the other connection in Idle or Close.
C7_ErrorStopsPeer ==
  \A i \in Peers, c \in ConnIds, code \in ErrCodes \ {6}, sub \in ErrSubcodes :
    peer[i].cn[c].state \notin {"Idle", "Close"} =>
      LET D == bgp_update_startup_delay(peer[i])
          Q == bgp_error(peer[i], c, code, sub)
      IN  /\ Q.startup_delay = D.startup_delay
          /\ Q.last_proto_error = D.last_proto_error
          /\ Q.last_proto_error = now
          /\ Q.disabled = D.disabled
          /\ Q.proto_state = "Stop"
          /\ Q.cn[c].state = "Close"
          /\ Q.cn[Other(c)].state \in {"Idle", "Close"}

\* A callback has invoked bgp_error with a code other than 6 on a connection
\* in OpenSent, and the other connection has been closed with a Cease.
C7_Witness ==
  /\ last.op = "bgp_error"
  /\ last.code # 6
  /\ last.os = "OpenSent"
  /\ peer[last.p].proto_state = "Stop"
  /\ peer[last.p].cn[last.c].state = "Close"
  /\ peer[last.p].cn[Other(last.c)].state = "Close"
  /\ peer[last.p].cn[Other(last.c)].notify_code = 6

C9_CloseIsQuiet ==
  \A i \in Peers, c \in ConnIds :
    peer[i].cn[c].state = "Close" =>
      /\ peer[i].cn[c].hold_timer = 0
      /\ peer[i].cn[c].keepalive_timer = 0
      /\ ~peer[i].cn[c].rx_hook

\* A connection is in Close with a Keepalive still queued behind the
\* Notification: it had reached OpenConfirm or Established.
C9_Witness ==
  \E i \in Peers, c \in ConnIds :
    /\ peer[i].cn[c].state = "Close"
    /\ PKT_KEEPALIVE \in peer[i].cn[c].packets_to_send

\* C10: a connection in Idle owns no socket, no timer, no transmit event and
\* no queued packet; and every step that takes a connection into Idle leaves
\* the decision event of its peer scheduled.
C10_IdleOwnsNothing ==
  /\ [](\A i \in Peers, c \in ConnIds :
          peer[i].cn[c].state = "Idle" =>
            /\ ~peer[i].cn[c].sk
            /\ ~peer[i].cn[c].rx_hook
            /\ peer[i].cn[c].connect_retry_timer = NULLT
            /\ peer[i].cn[c].hold_timer = NULLT
            /\ peer[i].cn[c].keepalive_timer = NULLT
            /\ ~peer[i].cn[c].tx_ev
            /\ peer[i].cn[c].packets_to_send = {})
  /\ [][\A i \in Peers, c \in ConnIds :
          (peer[i].cn[c].state # "Idle" /\ peer'[i].cn[c].state = "Idle")
            => peer'[i].event = 1]_vars

\* A connection that was in use is back in Idle, the decision event is
\* scheduled and the peer is still starting.
C10_Witness ==
  \E i \in Peers, c \in ConnIds :
    /\ peer[i].cn[c].state = "Idle"
    /\ peer[i].event = 1
    /\ peer[i].proto_state = "Start"
    /\ peer[i].last_error_class = BE_SOCKET

-----------------------------------------------------------------------------
\* The back-off, the timers and the reload of the configuration (SpecUnit).

\* C11: in every reachable state, whatever error_delay_time_min and
\* error_delay_time_max are configured, startup_delay is at most
\* error_delay_time_max.
C11_DelayAtMostMax ==
  \A i \in Peers : peer[i].startup_delay <= peer[i].cf.error_delay_time_max

\* C12: of two successive calls of bgp_update_startup_delay less than
\* error_amnesia_time apart, with disable_after_error off, the second leaves
\* a startup_delay not smaller than the first left.  (In SpecUnit nothing
\* else writes startup_delay, so the delay before the second call is the
\* one the first call left.)
C12_BackoffMonotone ==
  [][\A i \in Peers :
       ( /\ last'.op = "bgp_update_startup_delay"
         /\ last'.p = i
         /\ peer[i].last_proto_error # 0
         /\ now - peer[i].last_proto_error < peer[i].cf.error_amnesia_time
         /\ ~peer[i].cf.disable_after_error )
       => peer'[i].startup_delay >= peer[i].startup_delay]_vars

\* C13: bgp_update_startup_delay resets startup_delay to 0 when at least
\* error_amnesia_time has passed since last_proto_error, sets
\* last_proto_error to now, and then either (disable_after_error) clears
\* startup_delay and marks the peer disabled, or sets startup_delay to
\* error_delay_time_min when it was 0 and to min(2 * startup_delay,
\* error_delay_time_max) otherwise; it changes nothing else.
C13_UpdateStartupDelayExact ==
  [][\A i \in Peers :
       (last'.op = "bgp_update_startup_delay" /\ last'.p = i) =>
         LET P == peer[i]
             cf == P.cf
             aged == now - P.last_proto_error >= cf.error_amnesia_time
             d0 == IF aged THEN 0 ELSE P.startup_delay
             d1 == IF cf.disable_after_error THEN 0
                   ELSE IF d0 = 0 THEN cf.error_delay_time_min
                   ELSE IF 2 * d0 <= cf.error_delay_time_max THEN 2 * d0
                   ELSE cf.error_delay_time_max
         IN  peer'[i] = [P EXCEPT !.startup_delay = d1,
                                  !.last_proto_error = now,
                                  !.disabled = @ \/ cf.disable_after_error]]_vars

\* After the clock has advanced, an error has doubled the delay that an
\* earlier error left.
C13_Witness ==
  /\ last.op = "bgp_update_startup_delay"
  /\ peer[last.p].startup_delay = 2 * peer[last.p].cf.error_delay_time_min
  /\ peer[last.p].cf.error_delay_time_min > 0
  /\ peer[last.p].last_proto_error = now
  /\ now > 1

\* C14: a timer armed by bgp_start_timer with nominal value v > 0 fires after
\* an interval in [3v/4, v]: v - floor(v/4) plus a random addition of at most
\* floor(v/4); with v = 0 the timer is stopped.
C14_TimerInterval ==
  last.op = "bgp_start_timer" =>
    IF last.value > 0
      THEN /\ 4 * last.expires >= 3 * last.value
           /\ last.expires <= last.value
           /\ last.expires - (last.value - (last.value \div 4))
                \in 0 .. (last.value \div 4)
           /\ peer[last.p].startup_timer > 0
      ELSE peer[last.p].startup_timer = 0

\* A timer of nominal value 8 has been armed to fire after 6, the lower end
\* of its interval.
C14_Witness ==
  /\ last.op = "bgp_start_timer"
  /\ last.value = MaxTimerValue
  /\ 4 * last.expires = 3 * last.value

\* C15: bgp_reconfigure answers "same" iff all fields but the password agree
\* and the passwords are equal as strings; then the peer adopts the new
\* configuration and nothing else of it changes; otherwise the peer keeps
\* its configuration.
C15_ReconfigureSame ==
  [][\A i \in Peers :
       (last'.op = "bgp_reconfigure" /\ last'.p = i) =>
         LET old == peer[i].cf
             new == last'.new
             eq == /\ \A f \in (DOMAIN old) \ {"password", "global"} :
                        old[f] = new[f]
                   /\ old.password = new.password
         IN  /\ last'.same <=> eq
             /\ last'.same => peer'[i] = [peer[i] EXCEPT !.cf = new]
             /\ ~last'.same => peer'[i] = peer[i]]_vars

\* A peer with a password has adopted a reloaded configuration.
C15_Witness ==
  /\ last.op = "bgp_reconfigure"
  /\ last.same
  /\ peer[last.p].cf = last.new
  /\ peer[last.p].cf.global = 1
  /\ peer[last.p].cf.password # << >>

-----------------------------------------------------------------------------
\* The error report, the session notifications, passive peers and incoming
\* connections (Spec).

\* C16: bgp_store_error(p, c, class, code) sets last_error to (class, code)
\* iff the peer is not in Stop and is not Up with c a non-null connection
\* other than p->conn; otherwise it leaves the peer as it is.
C16_StoreErrorRule ==
  \A i \in Peers, c \in ConnIds \cup {"NULL"},
     e \in {<< BE_MISC, BEM_NEIGHBOR_LOST >>, << BE_SOCKET, 104 >>} :
    LET P == peer[i]
        ignored == \/ P.proto_state = "Stop"
                   \/ (P.proto_state = "Up" /\ c # "NULL" /\ c # P.conn)
    IN  bgp_store_error(P, c, e[1], e[2]) =
          IF ignored THEN P
          ELSE [P EXCEPT !.last_error_class = e[1], !.last_error_code = e[2]]

\* While the peer is Up, bgp_error on the connection that is not the session
\* has left the error report empty.
C16_Witness ==
  /\ last.op = "bgp_error"
  /\ peer[last.p].proto_state = "Up"
  /\ peer[last.p].conn # last.c
  /\ peer[last.p].last_error_class = BE_NONE

\* C17: while a peer stays in Stop its last_error_class and last_error_code
\* do not change, whatever happens on its connections.
C17_ErrorKeptInStop ==
  [][\A i \in Peers :
       (peer[i].proto_state = "Stop" /\ peer'[i].proto_state = "Stop") =>
         /\ peer'[i].last_error_class = peer[i].last_error_class
         /\ peer'[i].last_error_code = peer[i].last_error_code]_vars

\* After a shutdown a socket error has hit a connection in Close, and the
\* peer, still in Stop, reports the shutdown.
C17_Witness ==
  /\ last.op = "bgp_sock_err"
  /\ last.os = "Close"
  /\ peer[last.p].proto_state = "Stop"
  /\ peer[last.p].last_error_class = BE_MAN_DOWN

\* C18: the peer becomes Up in exactly the steps in which a connection
\* enters Established, and leaves Up in exactly the steps in which a
\* connection leaves Established.
C18_UpDownOncePerSession ==
  [][\A i \in Peers :
       /\ (\E c \in ConnIds : /\ peer[i].cn[c].state # "Established"
                              /\ peer'[i].cn[c].state = "Established")
            <=> (peer[i].proto_state # "Up" /\ peer'[i].proto_state = "Up")
       /\ (\E c \in ConnIds : /\ peer[i].cn[c].state = "Established"
                              /\ peer'[i].cn[c].state # "Established")
            <=> (peer[i].proto_state = "Up" /\ peer'[i].proto_state # "Up")]_vars

\* The hold timer has expired on the Established connection and the peer has
\* left Up.
C18_Witness ==
  /\ last.op = "bgp_error"
  /\ last.os = "Established"
  /\ last.code = 4
  /\ peer[last.p].proto_state = "Stop"
  /\ peer[last.p].conn = "NULL"

\* C19: the outgoing connection of a passive peer is Idle in every state.
C19_PassiveNeverConnects ==
  \A i \in Peers :
    peer[i].cf.passive =>
      /\ peer[i].cn["out"].state = "Idle"
      /\ ~peer[i].cn["out"].sk

\* A passive peer is Up on its incoming connection.
C19_Witness ==
  \E i \in Peers :
    /\ peer[i].cf.passive
    /\ peer[i].proto_state = "Up"
    /\ peer[i].conn = "in"

-----------------------------------------------------------------------------
\* Properties of the start of a peer and of the listening socket.

\* C21: when the listening socket accepts a connection from address addr:
\* if some instance with remote_ip = addr satisfies the acceptance predicate,
\* the connection is attached to the incoming slot of one such instance
\* (which then is in OpenSent with the socket) and to no other; if none
\* does, nothing changes (the socket is dropped); an instance with another
\* remote_ip is never changed.
C21_IncomingDispatch ==
  bgp_listen_sk =>
    \A addr \in Addrs :
      LET W == bgp_incoming_connection(World, addr)
          cand == {i \in Peers : /\ peer[i].cf.remote_ip = addr
                                 /\ bgp_incoming_acc(peer[i])}
          att == {i \in Peers : W.peer[i] # peer[i]}
      IN  /\ \A i \in att : peer[i].cf.remote_ip = addr
          /\ IF cand = {}
               THEN W = World
               ELSE \E i \in cand :
                      /\ att = {i}
                      /\ W.peer[i].cn["in"].sk
                      /\ W.peer[i].cn["in"].state = "OpenSent"

\* C22: while the object lock of a peer is pending the peer is in Start (or
\* in Stop, after a shutdown), its start_state is Prepare, both connections
\* are Idle, it has no neighbor entry and accepts no inbound connection; no
\* step that leaves the lock pending changes bgp_counter, and the only such
\* step that changes the protocol state is bgp_shutdown; and a grant of the
\* lock to a peer that is not in Start changes nothing else.
C22_WaitsForLock ==
  /\ [](\A i \in Peers :
          peer[i].lock = "pending" =>
            /\ peer[i].proto_state \in {"Start", "Stop"}
            /\ peer[i].start_state = BSS_PREPARE
            /\ \A c \in ConnIds : /\ peer[i].cn[c].state = "Idle"
                                  /\ ~peer[i].cn[c].sk
            /\ peer[i].neigh = "null"
            /\ ~bgp_incoming_acc(peer[i])
            /\ bgp_incoming_connection(World, peer[i].cf.remote_ip) = World)
  /\ [][\A i \in Peers :
          /\ (peer[i].lock = "pending" /\ peer'[i].lock = "pending") =>
               /\ bgp_counter' = bgp_counter
               /\ bgp_listen_sk' = bgp_listen_sk
               /\ peer'[i].proto_state # peer[i].proto_state =>
                    /\ peer[i].proto_state = "Start"
                    /\ \E cause \in Causes :
                         peer'[i] = Canon(bgp_shutdown(peer[i], cause))
          /\ (peer[i].lock = "pending" /\ peer[i].proto_state # "Start"
                /\ peer'[i].lock = "granted") =>
               /\ peer'[i] = [peer[i] EXCEPT !.lock = "granted"]
               /\ bgp_counter' = bgp_counter
               /\ bgp_listen_sk' = bgp_listen_sk
               /\ bgp_linpool' = bgp_linpool]_vars

\* The lock has been granted to a peer that was shut down while it waited:
\* the peer is in Stop and still as bgp_start left it.
C22_Witness ==
  \E i \in Peers :
    /\ peer[i].lock = "granted"
    /\ peer[i].proto_state = "Stop"
    /\ peer[i].start_state = BSS_PREPARE
    /\ peer[i].neigh = "null"
    /\ peer[i].last_error_class = BE_MAN_DOWN

C24_Md5FailureUndoesOpen ==
  \A i \in Peers :
    LET P == peer[i]
        after(W) ==
          /\ W.peer[i].disabled
          /\ W.peer[i].last_error_class = BE_MISC
          /\ W.peer[i].last_error_code = BEM_INVALID_MD5
          /\ W.peer[i].proto_state = "Down"
          /\ W.peer[i].start_state = BSS_PREPARE
          /\ W.peer[i].startup_timer <= 0
          /\ \A c \in ConnIds :
               /\ W.peer[i].cn[c].state = "Idle"
               /\ ~W.peer[i].cn[c].sk
               /\ W.peer[i].cn[c].connect_retry_timer <= 0
          /\ W.bgp_counter = bgp_counter
          /\ W.bgp_counter = 0 => (~W.bgp_listen_sk /\ ~W.bgp_linpool)
          /\ (W.bgp_counter > 0 /\ bgp_listen_sk) => W.bgp_listen_sk
          /\ ~W.md5_unset
    IN  \A listen_fails \in BOOLEAN :
          /\ (P.lock = "pending" /\ P.proto_state = "Start"
                /\ P.cf.password # << >>) =>
               after(bgp_start_locked(
                       [World EXCEPT !.peer[i].lock = "granted"], i,
                       "if", listen_fails, TRUE))
          /\ (P.neigh = "noif" /\ P.proto_state = "Start"
                /\ P.start_state = BSS_PREPARE /\ P.cf.password # << >>) =>
               after(bgp_neigh_notify(
                       [World EXCEPT !.peer[i].neigh = "if"], i,
                       listen_fails, TRUE))

\* The MD5 key of a peer could not be installed while another peer held
\* the listener: the peer is Down and disabled, the listener is still there.
C24_Witness ==
  \E i \in Peers :
    /\ peer[i].proto_state = "Down"
    /\ peer[i].disabled
    /\ peer[i].last_error_class = BE_MISC
    /\ peer[i].last_error_code = BEM_INVALID_MD5
    /\ bgp_counter = 1
    /\ bgp_listen_sk
    /\ \E j \in Peers \ {i} : /\ peer[j].proto_state = "Start"
                              /\ peer[j].start_state >= BSS_CONNECT

C26_RouteLimit ==
  [](\A i \in Peers :
        (peer[i].proto_state = "Up" /\ peer[i].conn # "NULL") =>
          \A imp_routes \in 0 .. 2 :
            LET P == peer[i]
                c == P.conn
                Q == bgp_apply_limits(P, imp_routes)
                rv == bgp_apply_limits_rv(P, imp_routes)
                D == bgp_update_startup_delay(P)
            IN  IF P.cf.route_limit # 0 /\ imp_routes > P.cf.route_limit
                  THEN /\ Q.last_error_class = BE_AUTO_DOWN
                       /\ Q.last_error_code = BEA_ROUTE_LIMIT_EXCEEDED
                       /\ Q.startup_delay = D.startup_delay
                       /\ Q.last_proto_error = now
                       /\ Q.disabled = D.disabled
                       /\ Q.proto_state = "Stop"
                       /\ Q.conn = "NULL"
                       /\ Q.cn[c].state = "Close"
                       /\ PKT_NOTIFICATION \in Q.cn[c].packets_to_send
                       /\ Q.cn[c].notify_code = 6
                       /\ Q.cn[c].notify_subcode = 1
                       /\ Q.event = 1
                       /\ rv = -1
                  ELSE Q = P /\ rv = 0)

\* The route limit has been exceeded: the peer is in Stop with (AutoDown,
\* RouteLimitExceeded), a startup delay, and a connection in Close with the
\* Notification (6, 1) to send.
C26_Witness ==
  \E i \in Peers, c \in ConnIds :
    /\ peer[i].proto_state = "Stop"
    /\ peer[i].last_error_class = BE_AUTO_DOWN
    /\ peer[i].last_error_code = BEA_ROUTE_LIMIT_EXCEEDED
    /\ peer[i].startup_delay = peer[i].cf.error_delay_time_min
    /\ peer[i].cn[c].state = "Close"
    /\ PKT_NOTIFICATION \in peer[i].cn[c].packets_to_send
    /\ peer[i].cn[c].notify_code = 6
    /\ peer[i].cn[c].notify_subcode = 1

\* C27: bgp_neigh_notify.  The neighbor has got an interface: a peer in
\* Start with start_state Prepare runs bgp_open and, unless the MD5 key
\* fails, bgp_initiate (the listener's reference taken, the startup timer
\* armed with a startup delay, bgp_startup run without one); any other peer
\* is unchanged.  The neighbor has lost its interface: a peer in Start or Up
\* gets last_error (Misc, NeighborLost) and is stopped (Stop, no connection
\* left open, the decision event scheduled); a peer in Stop or Down is
\* unchanged.
C27_NeighNotify ==
  [](\A i \in Peers :
        LET P == peer[i]
            Wup == [World EXCEPT !.peer[i].neigh = "if"]
            Wdown == [World EXCEPT !.peer[i].neigh = "noif"]
            lost == bgp_neigh_notify(Wdown, i, FALSE, FALSE)
        IN  /\ IF P.proto_state = "Start" /\ P.start_state = BSS_PREPARE
                 THEN \A listen_fails \in BOOLEAN, md5_fails \in BOOLEAN :
                        LET W == bgp_neigh_notify(Wup, i, listen_fails, md5_fails)
                            r == bgp_open(Wup, i, listen_fails, md5_fails)
                        IN  IF r.rv < 0
                              THEN W = r.w
                              ELSE /\ W = [r.w EXCEPT !.peer[i] = bgp_initiate(@)]
                                   /\ W.bgp_counter = bgp_counter + 1
                                   /\ IF P.startup_delay > 0
                                        THEN /\ W.peer[i].startup_timer =
                                                  P.startup_delay
                                             /\ W.peer[i].start_state = BSS_PREPARE
                                        ELSE W.peer[i].start_state >= BSS_CONNECT
                 ELSE \A listen_fails \in BOOLEAN, md5_fails \in BOOLEAN :
                        bgp_neigh_notify(Wup, i, listen_fails, md5_fails) = Wup
            /\ IF P.proto_state \in {"Start", "Up"}
                 THEN /\ lost.peer[i].last_error_class = BE_MISC
                      /\ lost.peer[i].last_error_code = BEM_NEIGHBOR_LOST
                      /\ lost.peer[i].proto_state = "Stop"
                      /\ lost.peer[i].event = 1
                      /\ lost.peer[i].conn = "NULL"
                      /\ \A c \in ConnIds :
                           lost.peer[i].cn[c].state \in {"Idle", "Close"}
                      /\ lost.bgp_counter = bgp_counter
                 ELSE lost = Wdown)

\* A peer with an open connection has lost its neighbor: it is in Stop with
\* (Misc, NeighborLost) and the connection is in Close.
C27_Witness ==
  \E i \in Peers, c \in ConnIds :
    /\ peer[i].proto_state = "Stop"
    /\ peer[i].neigh = "noif"
    /\ peer[i].last_error_class = BE_MISC
    /\ peer[i].last_error_code = BEM_NEIGHBOR_LOST
    /\ peer[i].cn[c].state = "Close"
    /\ peer[i].cn[c].keepalive_timer = 0

-----------------------------------------------------------------------------
\* Properties of the connection state machine.

\* C28: when the hold timer of a connection expires: with input pending on
\* the socket the timer is armed again with 10 s and nothing else changes;
\* otherwise the connection is in Close with the Notification (4, 0)
\* scheduled, the peer is in Stop with the decision event scheduled, and if
\* its startup_delay was 0 and disable_after_error is off, startup_delay is
\* error_delay_time_min.
C28_HoldTimeout ==
  [](\A i \in Peers, c \in ConnIds :
        peer[i].cn[c].hold_timer > 0 =>
          LET P == peer[i]
              fired == [P EXCEPT !.cn[c].hold_timer = 0]
              R == bgp_hold_timeout(fired, c, TRUE)
              Q == bgp_hold_timeout(fired, c, FALSE)
          IN  /\ R = [P EXCEPT !.cn[c].hold_timer = 10]
              /\ Q.cn[c].state = "Close"
              /\ PKT_NOTIFICATION \in Q.cn[c].packets_to_send
              /\ Q.cn[c].notify_code = 4
              /\ Q.cn[c].notify_subcode = 0
              /\ Q.cn[c].hold_timer = 0
              /\ Q.proto_state = "Stop"
              /\ Q.event = 1
              /\ Q.cn[Other(c)].state \in {"Idle", "Close"}
              /\ (P.startup_delay = 0 /\ ~P.cf.disable_after_error) =>
                   Q.startup_delay = P.cf.error_delay_time_min)

\* The hold timer of an established session has expired with nothing to
\* read: the connection is in Close with (4, 0) to send, the peer in Stop
\* with the first startup delay.
C28_Witness ==
  /\ last.op = "bgp_error"
  /\ last.code = 4
  /\ last.os = "Established"
  /\ peer[last.p].cn[last.c].state = "Close"
  /\ peer[last.p].cn[last.c].notify_code = 4
  /\ peer[last.p].cn[last.c].notify_subcode = 0
  /\ peer[last.p].proto_state = "Stop"
  /\ peer[last.p].startup_delay = peer[last.p].cf.error_delay_time_min
  /\ peer[last.p].startup_delay > 0

BS_States ==
  {"Idle", "Connect", "Active", "OpenSent", "OpenConfirm", "Established",
   "Close"}

\* The transitions of the FSM table of the specification.
FsmTable ==
  { <<"Idle", "Connect">>, <<"Idle", "Active">>, <<"Connect", "OpenSent">>,
    <<"Connect", "Connect">>, <<"Connect", "Idle">>, <<"Active", "OpenSent">>,
    <<"OpenSent", "OpenConfirm">>, <<"OpenConfirm", "Established">>,
    <<"Close", "Idle">> }
  \cup {<<s, "Close">> : s \in BS_States}

\* The transitions the code makes.
CodeTable(c) ==
  { <<"Connect", "OpenSent">>, <<"Connect", "Idle">>,
    <<"Active", "Connect">>, <<"Active", "Idle">>,
    <<"OpenSent", "OpenConfirm">>, <<"OpenSent", "Close">>,
    <<"OpenSent", "Idle">>,
    <<"OpenConfirm", "Established">>, <<"OpenConfirm", "Close">>,
    <<"OpenConfirm", "Idle">>,
    <<"Established", "Close">>, <<"Established", "Idle">>,
    <<"Close", "Idle">> }
  \cup (IF c = "out" THEN {<<"Idle", "Active">>} ELSE {<<"Idle", "OpenSent">>})

\* C29 as stated: every change of the state of a connection is a transition
\* of the FSM table.
C29_OnlyTableTransitions ==
  [][\A i \in Peers, c \in ConnIds :
       peer'[i].cn[c].state # peer[i].cn[c].state =>
         <<peer[i].cn[c].state, peer'[i].cn[c].state>> \in FsmTable]_vars

\* C29, amended: every change of the state of a connection is one of:
\* Idle->Active (outgoing slot), Idle->OpenSent (incoming slot),
\* Active->Connect, Active->Idle, Connect->OpenSent, Connect->Idle,
\* OpenSent->OpenConfirm, OpenConfirm->Established, OpenSent / OpenConfirm /
\* Established -> Close, OpenSent / OpenConfirm / Established -> Idle, and
\* Close->Idle.
C29_FsmTransitions ==
  [][\A i \in Peers, c \in ConnIds :
       peer'[i].cn[c].state # peer[i].cn[c].state =>
         <<peer[i].cn[c].state, peer'[i].cn[c].state>> \in CodeTable(c)]_vars

\* A socket error has taken an Established connection straight to Idle.
C29_Witness ==
  /\ last.op = "bgp_sock_err"
  /\ last.os = "Established"
  /\ peer[last.p].cn[last.c].state = "Idle"
  /\ peer[last.p].last_error_class = BE_SOCKET

\* C30: bgp_initiate on a peer in Start with start_state Prepare: with a
\* startup delay the startup timer is armed with it and nothing else
\* changes; while the timer runs the peer stays in Prepare, both connections
\* Idle, no inbound connection accepted.  Without a delay, and when the
\* timer fires, start_state becomes Connect (ConnectNoCap without
\* capabilities) and the outgoing connection of a peer that is not passive
\* becomes Active with its retry timer armed (that of a passive peer stays
\* Idle).  A peer whose startup timer is armed gets past Prepare, with its
\* outgoing connection out of Idle unless it is passive, or goes Down.
C30_StartupTimer ==
  /\ [](\A i \in Peers :
          LET P == peer[i]
              started(Q) ==
                /\ Q.start_state = IF P.cf.capabilities THEN BSS_CONNECT
                                   ELSE BSS_CONNECT_NOCAP
                /\ IF P.cf.passive
                     THEN Q.cn = P.cn
                     ELSE /\ Q.cn["out"].state = "Active"
                          /\ Q.cn["out"].connect_retry_timer =
                               MAX(1, P.cf.start_delay_time)
                          /\ Q.cn["in"] = P.cn["in"]
          IN  /\ (P.proto_state = "Start" /\ P.start_state = BSS_PREPARE) =>
                   IF P.startup_delay > 0
                     THEN bgp_initiate(P) =
                            [P EXCEPT !.startup_timer = P.startup_delay]
                     ELSE started(bgp_initiate(P))
              /\ P.startup_timer > 0 =>
                   /\ P.start_state = BSS_PREPARE
                   /\ \A c \in ConnIds : P.cn[c].state = "Idle"
                   /\ ~bgp_incoming_acc(P)
                   /\ started(bgp_startup_timeout(
                                [P EXCEPT !.startup_timer = 0])))
  /\ \A i \in {1} :
       (i \in Peers /\ peer[i].startup_timer > 0)
         ~> (i \in Peers /\
              \/ peer[i].proto_state = "Down"
              \/ /\ peer[i].start_state >= BSS_CONNECT
                 /\ peer[i].cf.passive \/ peer[i].cn["out"].state # "Idle")

\* A peer restarted after an error has waited for its startup timer and is
\* connecting again: past Prepare, the outgoing connection Active, the
\* startup delay of the back-off still set.
C30_Witness ==
  \E i \in Peers :
    /\ peer[i].proto_state = "Start"
    /\ peer[i].startup_delay > 0
    /\ peer[i].startup_timer = 0
    /\ peer[i].start_state = BSS_CONNECT
    /\ peer[i].cn["out"].state = "Active"

-----------------------------------------------------------------------------
\* Properties of the outgoing connection and of the stop of a peer.

\* C31 as stated: when the retry timer of the outgoing connection fires in
\* Connect, the connection is in Connect again with a new socket and the
\* timer armed with connect_retry_time, or, sk_open failing at once, in Idle
\* with the error (Socket, 0) stored; a socket error in Connect stores
\* (Socket, errno) and leaves the connection Idle.
C31_ConnectRetryAlways ==
  \A i \in Peers :
    peer[i].cn["out"].state = "Connect" =>
      LET P == peer[i]
          fired == [P EXCEPT !.cn["out"].connect_retry_timer = 0]
          R == bgp_connect_timeout(fired, "out", FALSE)
          F == bgp_connect_timeout(fired, "out", TRUE)
      IN  /\ R.cn["out"].state = "Connect"
          /\ R.cn["out"].sk
          /\ R.cn["out"].connect_retry_timer = P.cf.connect_retry_time
          /\ F.cn["out"].state = "Idle"
          /\ F.last_error_class = BE_SOCKET /\ F.last_error_code = 0
          /\ \A err \in Errnos :
               LET E == bgp_sock_err(P, "out", err)
               IN  /\ E.cn["out"].state = "Idle"
                   /\ E.last_error_class = BE_SOCKET
                   /\ E.last_error_code = err

\* C31, amended: an outgoing connection in Connect has its socket and its
\* retry timer armed.  When the timer fires and the peer is in Start, the
\* connection is set up anew: it is in Connect with a new socket and the
\* timer armed with connect_retry_time and nothing else of the peer changes,
\* or, sk_open failing at once, it is Idle with everything released, the
\* error (Socket, 0) stored and the decision event scheduled.  When the peer
\* is not in Start (it is Up on the incoming connection), the timer takes
\* the connection to Idle, schedules the decision event and stores no
\* error.  A socket error in Connect takes the connection to Idle and
\* schedules the decision event; (Socket, errno) is stored when the peer is
\* in Start and the last error is kept when it is Up.
C31_ConnectRetry ==
  [](\A i \in Peers :
       peer[i].cn["out"].state = "Connect" =>
         LET P == peer[i]
             fired == [P EXCEPT !.cn["out"].connect_retry_timer = 0]
             R == bgp_connect_timeout(fired, "out", FALSE)
             F == bgp_connect_timeout(fired, "out", TRUE)
             idle(Q) == /\ Q.cn["out"] = InitConn
                        /\ Q.event = 1
                        /\ Q.cn["in"] = P.cn["in"]
                        /\ Q.proto_state = P.proto_state
             same_error(Q) ==
               /\ Q.last_error_class = P.last_error_class
               /\ Q.last_error_code = P.last_error_code
         IN  /\ P.cn["out"].sk
             /\ P.cn["out"].connect_retry_timer = P.cf.connect_retry_time
             /\ P.proto_state \in {"Start", "Up"}
             /\ IF P.proto_state = "Start"
                  THEN /\ R = [P EXCEPT !.cn["out"] =
                                 [InitConn EXCEPT
                                    !.state = "Connect", !.sk = TRUE,
                                    !.connect_retry_timer =
                                       P.cf.connect_retry_time,
                                    !.hold_timer = 0, !.keepalive_timer = 0,
                                    !.tx_ev = TRUE,
                                    !.notify_code = P.cn["out"].notify_code,
                                    !.notify_subcode =
                                       P.cn["out"].notify_subcode]]
                       /\ idle(Canon(F))
                       /\ F.last_error_class = BE_SOCKET
                       /\ F.last_error_code = 0
                  ELSE /\ R = F
                       /\ idle(Canon(R))
                       /\ same_error(R)
                       /\ P.conn = "in"
             /\ \A err \in Errnos :
                  LET E == bgp_sock_err(P, "out", err)
                  IN  /\ idle(Canon(E))
                      /\ IF P.proto_state = "Start"
                           THEN /\ E.last_error_class = BE_SOCKET
                                /\ E.last_error_code = err
                           ELSE same_error(E))

\* The session is established on the incoming connection while the outgoing
\* one is still in Connect with its retry timer running: the timer, when it
\* fires, takes the outgoing connection to Idle without a new attempt.
C31_Witness ==
  \E i \in Peers :
    /\ peer[i].proto_state = "Up"
    /\ peer[i].conn = "in"
    /\ peer[i].cn["out"].state = "Connect"
    /\ peer[i].cn["out"].connect_retry_timer > 0
    /\ bgp_connect_timeout(peer[i], "out", FALSE).cn["out"].state = "Idle"

\* C32: while a peer is in Stop or Down none of its connections leaves Idle.
C32_QuietWhenStopped ==
  [][\A i \in Peers, c \in ConnIds :
       (peer[i].proto_state \in {"Stop", "Down"} /\ peer[i].cn[c].state = "Idle")
         => peer'[i].cn[c].state = "Idle"]_vars

\* C33: a peer never goes Down while one of its connections is not Idle (in
\* particular not while a connection is in Close with its Notification
\* still to send): when it goes Down both connections were Idle already
\* and stay so.  A connection in Close has its Notification scheduled and
\* its socket, so that it can be flushed.  A peer in Stop reaches Down with
\* both connections Idle, provided the Notification of every connection in
\* Close is flushed (or its socket fails), the decision event runs and an
\* armed retry timer fires.
C33_StopReachesDown ==
  /\ [][\A i \in Peers :
          (peer[i].proto_state # "Down" /\ peer'[i].proto_state = "Down") =>
            \A c \in ConnIds :
              /\ peer[i].cn[c].state = "Idle"
              /\ peer'[i].cn[c].state = "Idle"]_vars
  /\ [](\A i \in Peers, c \in ConnIds :
          peer[i].cn[c].state = "Close" =>
            /\ PKT_NOTIFICATION \in peer[i].cn[c].packets_to_send
            /\ peer[i].cn[c].sk
            /\ peer[i].proto_state # "Down")
  /\ \A i \in {1} :
       (i \in Peers /\ peer[i].proto_state = "Stop")
         ~> (i \in Peers /\ peer[i].proto_state = "Down"
               /\ \A c \in ConnIds : peer[i].cn[c].state = "Idle")

\* A peer stopped by bgp_error with a code other than Cease (the error it
\* stored is of class BgpTx and the back-off is set) has gone Down: the
\* connection that bgp_error left in Close is Idle, as is the other one, and
\* the decision event is freed.
C33_Witness ==
  \E i \in Peers :
    /\ peer[i].proto_state = "Down"
    /\ peer[i].last_error_class = BE_BGP_TX
    /\ peer[i].startup_delay > 0
    /\ peer[i].event = NULLT
    /\ \A c \in ConnIds : peer[i].cn[c].state = "Idle"

\* C34: whenever the outgoing connection of a peer that is not passive is
\* Idle while the peer is in Start with start_state past Prepare, the
\* decision event is scheduled, and bgp_decision makes the outgoing
\* connection Active with the retry timer armed at max(1, start_delay_time),
\* the peer staying in Start and the incoming connection as it is; so the
\* outgoing connection becomes Active again unless the peer leaves Start.
C34_RetryAfterIdle ==
  /\ [](\A i \in Peers :
          LET P == peer[i]
          IN  (/\ ~P.cf.passive
               /\ P.proto_state = "Start"
               /\ P.start_state > BSS_PREPARE
               /\ P.cn["out"].state = "Idle") =>
                /\ P.event = 1
                /\ LET W == bgp_decision([World EXCEPT !.peer[i].event = 0], i)
                       Q == W.peer[i]
                   IN  /\ Q.cn["out"].state = "Active"
                       /\ Q.cn["out"].connect_retry_timer =
                            MAX(1, P.cf.start_delay_time)
                       /\ ~Q.cn["out"].sk
                       /\ Q.proto_state = "Start"
                       /\ Q.cn["in"] = P.cn["in"]
                       /\ W.bgp_counter = bgp_counter)
  /\ \A i \in {1} :
       (/\ i \in Peers
        /\ ~peer[i].cf.passive
        /\ peer[i].proto_state = "Start"
        /\ peer[i].start_state > BSS_PREPARE
        /\ peer[i].cn["out"].state = "Idle")
         ~> (i \in Peers /\
              \/ peer[i].proto_state # "Start"
              \/ /\ peer[i].cn["out"].state = "Active"
                 /\ peer[i].cn["out"].connect_retry_timer =
                      MAX(1, peer[i].cf.start_delay_time))

\* An outgoing connect has failed at once (sk_open: the error stored is
\* (Socket, 0)) and the peer, still in Start, is in Active again with the
\* retry timer armed.
C34_Witness ==
  \E i \in Peers :
    /\ peer[i].proto_state = "Start"
    /\ ~peer[i].cf.passive
    /\ peer[i].last_error_class = BE_SOCKET
    /\ peer[i].last_error_code = 0
    /\ peer[i].cn["out"].state = "Active"
    /\ peer[i].cn["out"].connect_retry_timer = MAX(1, peer[i].cf.start_delay_time)

\* C35: bgp_close is never called with bgp_counter = 0.  bgp_counter is
\* never negative and never less than the number of the peers that are not
\* Down and past Prepare (those whose bgp_down will call bgp_close); a peer
\* that bgp_decision is about to take down with start_state past Prepare
\* finds bgp_counter positive; and a step that lowers bgp_counter lowers it
\* by one from a positive value.
C35_CloseNeverUnderflows ==
  /\ [](/\ bgp_counter >= 0
        /\ bgp_counter >=
             Cardinality({i \in Peers : /\ peer[i].proto_state # "Down"
                                        /\ peer[i].start_state > BSS_PREPARE})
        /\ \A i \in Peers :
             (/\ peer[i].proto_state = "Stop"
              /\ peer[i].start_state > BSS_PREPARE
              /\ \A c \in ConnIds : peer[i].cn[c].state = "Idle") =>
               /\ bgp_counter > 0
               /\ bgp_decision(World, i).bgp_counter = bgp_counter - 1)
  /\ [][bgp_counter' < bgp_counter =>
          (bgp_counter > 0 /\ bgp_counter' = bgp_counter - 1)]_vars

\* One peer has gone Down from past Prepare (bgp_down has called bgp_close)
\* while another one, past Prepare too, is running: the counter is 1 and
\* the listening socket is still there.
C35_Witness ==
  \E i \in Peers, j \in Peers :
    /\ i # j
    /\ peer[i].proto_state = "Down"
    /\ peer[i].start_state > BSS_PREPARE
    /\ peer[j].proto_state = "Start"
    /\ peer[j].start_state > BSS_PREPARE
    /\ bgp_counter = 1
    /\ bgp_listen_sk

-----------------------------------------------------------------------------
\* Properties of the resources of a connection.

\* The connection owns nothing: no socket, no timer, no tx event.
ConnFree(conn) ==
  /\ ~conn.sk
  /\ conn.connect_retry_timer = NULLT
  /\ conn.hold_timer = NULLT
  /\ conn.keepalive_timer = NULLT
  /\ ~conn.tx_ev

\* C36: wherever bgp_setup_conn is about to run on a slot that was not just
\* closed, the slot owns nothing: the outgoing slot of a peer in Start with
\* start_state Prepare (bgp_initiate) or with the startup timer armed
\* (bgp_startup_timeout), the outgoing slot bgp_decision finds Idle, the
\* incoming slot of a peer that accepts a connection.  No decision event is
\* pending in Prepare.  In every step that takes a slot into Active, into
\* Connect or (the incoming one) into OpenSent the slot owned nothing
\* before, but for Active -> Connect, where bgp_connect_timeout has closed
\* it first; and after every step that takes the outgoing slot into Active
\* or Connect start_state is past Prepare.
C36_SetupOnFreeSlot ==
  /\ [](\A i \in Peers :
          LET P == peer[i]
          IN  /\ (P.proto_state = "Start" /\ P.start_state = BSS_PREPARE) =>
                   (ConnFree(P.cn["out"]) /\ P.event # 1)
              /\ P.startup_timer > 0 => ConnFree(P.cn["out"])
              /\ (/\ P.event = 1
                  /\ P.proto_state = "Start"
                  /\ P.cn["out"].state = "Idle"
                  /\ ~P.cf.passive) =>
                   (ConnFree(P.cn["out"]) /\ P.start_state > BSS_PREPARE)
              /\ bgp_incoming_acc(P) => ConnFree(P.cn["in"]))
  /\ [][\A i \in Peers, c \in ConnIds :
          (/\ peer'[i].cn[c].state # peer[i].cn[c].state
           /\ peer'[i].cn[c].state \in
                IF c = "out" THEN {"Active", "Connect"} ELSE {"OpenSent"}) =>
            /\ \/ ConnFree(peer[i].cn[c])
               \/ /\ peer[i].cn[c].state = "Active"
                  /\ peer'[i].cn[c].state = "Connect"
                  /\ ConnectTimeout(i, c)
            /\ c = "out" => peer'[i].start_state > BSS_PREPARE]_vars

\* The outgoing connection fell back to Idle in Start (its connect failed:
\* the error is (Socket, 0)), owns nothing, and the decision event that will
\* call bgp_active on it is scheduled.
C36_Witness ==
  \E i \in Peers :
    /\ peer[i].proto_state = "Start"
    /\ peer[i].start_state > BSS_PREPARE
    /\ ~peer[i].cf.passive
    /\ peer[i].event = 1
    /\ peer[i].last_error_class = BE_SOCKET
    /\ peer[i].last_error_code = 0
    /\ peer[i].cn["out"].state = "Idle"
    /\ ConnFree(peer[i].cn["out"])

\* The connection has its socket, its timers and its tx event.
ConnOwns(conn) ==
  /\ conn.sk
  /\ conn.connect_retry_timer # NULLT
  /\ conn.hold_timer # NULLT
  /\ conn.keepalive_timer # NULLT
  /\ conn.tx_ev

\* C37: every connection in OpenSent, OpenConfirm, Established or Close has
\* its socket and its timers.  The hold timer is armed, and the receive hook
\* set, only in OpenSent, OpenConfirm and Established, so that
\* bgp_hold_timeout and the packet handlers run bgp_error on a connection in
\* one of these states; bgp_error and bgp_graceful_close_conn applied to such
\* a connection leave it in Close with its socket and its timers, the hold
\* and keepalive timers stopped.  Every call of bgp_error a callback has made
\* was on a connection in one of the three states, or in Close, where
\* bgp_error returns at once, and the connection is in Close with its socket
\* and timers after it.
C37_ErrorPathsOwnSocket ==
  [](/\ \A i \in Peers, c \in ConnIds :
          LET P == peer[i]
              C == P.cn[c]
              open == {"OpenSent", "OpenConfirm", "Established"}
              closed(Q) == /\ Q.cn[c].state = "Close"
                           /\ ConnOwns(Q.cn[c])
                           /\ Q.cn[c].hold_timer = 0
                           /\ Q.cn[c].keepalive_timer = 0
                           /\ ~Q.cn[c].rx_hook
          IN  /\ C.state \in open \cup {"Close"} => ConnOwns(C)
              /\ C.hold_timer > 0 => C.state \in open
              /\ C.keepalive_timer > 0 => C.state \in open
              /\ C.rx_hook => C.state \in open
              /\ C.state \in open =>
                   /\ \A code \in ErrCodes, sub \in ErrSubcodes :
                        closed(bgp_error(P, c, code, sub))
                   /\ closed(bgp_hold_timeout(P, c, FALSE))
                   /\ closed(bgp_conn_enter_close_state(P, c))
                   /\ closed(bgp_graceful_close_conn(P, c, 2))
     /\ last.op = "bgp_error" =>
          /\ last.os \in {"OpenSent", "OpenConfirm", "Established", "Close"}
          /\ peer[last.p].cn[last.c].state = "Close"
          /\ ConnOwns(peer[last.p].cn[last.c])
          /\ peer[last.p].cn[last.c].hold_timer = 0
          /\ peer[last.p].cn[last.c].keepalive_timer = 0)

\* A Keepalive has arrived on a connection in OpenSent: bgp_error(5, 0) has
\* run on it, and the connection is in Close with its socket, its timers
\* stopped and the Notification to send.
C37_Witness ==
  /\ last.op = "bgp_error"
  /\ last.code = 5
  /\ last.os = "OpenSent"
  /\ peer[last.p].cn[last.c].state = "Close"
  /\ peer[last.p].cn[last.c].sk
  /\ peer[last.p].cn[last.c].hold_timer = 0
  /\ PKT_NOTIFICATION \in peer[last.p].cn[last.c].packets_to_send

=============================================================================
